---- MODULE Spec2Model ----
(***************************************************************************)
(* Multi-agent BDD generation (rpelizza/bdd-agent): the collaboration      *)
(* orchestrator (src/src/multi_agent/orchestrator.py), the worker          *)
(* abstraction (src/src/multi_agent/agents.py) and the data shapes         *)
(* (src/src/multi_agent/models.py).                                        *)
(*                                                                         *)
(* A text (Python str) is a sequence of characters, each character a       *)
(* one-character string (U+2022 is spelled by its code point); a list is   *)
(* a sequence; a dict is a sequence of [key, value] pairs in insertion     *)
(* order, as Python keeps it; None is the empty sequence and a value that  *)
(* may be None is a sequence of length 1.                                  *)
(***************************************************************************)
EXTENDS Integers, Sequences, FiniteSets, TLC

VARIABLES
    config,         \* the CollaborationConfig of the run
    user_story,     \* the text given to generate_bdd_scenarios
    pc,             \* where generate_bdd_scenarios is
    round_num,      \* the loop variable of _orchestrate_collaboration (0-based)
    agent_outputs,  \* Dict[AgentRole, AgentOutput] of _orchestrate_collaboration
    all_scenarios,  \* List[str] of _orchestrate_collaboration
    agent_input,    \* the AgentInput object of the current round
    tasks,          \* the awaitables of the current round handed to asyncio.gather
    response,       \* what generate_bdd_scenarios returned
    round_log,      \* history: per finished round, the tasks as gather returned them
    agents,         \* self._agents: the worker objects of the orchestrator, by key
    other           \* the frame of the other call of generate_bdd_scenarios on the
                    \* same orchestrator, suspended at an await (<<>>: there is none)

vars == <<config, user_story, pc, round_num, agent_outputs, all_scenarios,
          agent_input, tasks, response, round_log, agents, other>>

----------------------------------------------------------------------------
(* Bounds of the model *)

\* most worker invocations of one run: Len(enabled_agents) * collaboration_rounds
MaxCalls == 4
\* the configurations draw max_scenarios_per_agent from 1..MaxCap
MaxCap == 2

----------------------------------------------------------------------------
(* Integers and sequences *)

Min2(a, b) == IF a <= b THEN a ELSE b

Max2(a, b) == IF a >= b THEN a ELSE b

\* Python's seq[:n], n of either sign
PySliceTo(s, n) ==
    IF n >= 0 THEN SubSeq(s, 1, Min2(n, Len(s)))
              ELSE SubSeq(s, 1, Max2(0, Len(s) + n))

\* Python's seq[n:], n >= 0
PySliceFrom(s, n) == SubSeq(s, n + 1, Len(s))

RECURSIVE Concat(_)
\* the concatenation of a sequence of sequences
Concat(ss) == IF ss = <<>> THEN <<>> ELSE Head(ss) \o Concat(Tail(ss))

RECURSIVE SumSeq(_)
SumSeq(ns) == IF ns = <<>> THEN 0 ELSE Head(ns) + SumSeq(Tail(ns))

----------------------------------------------------------------------------
(* Python str operations *)

NL == "\n"

TAB == "\t"

SP == " "

\* str.isspace() on the characters of the model
IsSpace(c) == c \in {SP, TAB, NL, "\r"}

UpperChars ==
    <<"A","B","C","D","E","F","G","H","I","J","K","L","M","N","O",
      "P","Q","R","S","T","U","V","W","X","Y","Z","Á","Ã","Ç","Õ">>

LowerChars ==
    <<"a","b","c","d","e","f","g","h","i","j","k","l","m","n","o",
      "p","q","r","s","t","u","v","w","x","y","z","á","ã","ç","õ">>

\* the lower-case letter of every upper-case letter
ToLower == [c \in {UpperChars[i] : i \in DOMAIN UpperChars} |->
               LowerChars[CHOOSE i \in DOMAIN UpperChars : UpperChars[i] = c]]

\* str.lower() of one character
LowerChar(c) == IF c \in DOMAIN ToLower THEN ToLower[c] ELSE c

\* str.lower()
Lower(s) == [i \in 1..Len(s) |-> LowerChar(s[i])]

RECURSIVE LStrip(_)
\* str.lstrip()
LStrip(s) == IF s = <<>> \/ ~IsSpace(Head(s)) THEN s ELSE LStrip(Tail(s))

RECURSIVE RStrip(_)
\* str.rstrip()
RStrip(s) == IF s = <<>> \/ ~IsSpace(s[Len(s)]) THEN s ELSE RStrip(SubSeq(s, 1, Len(s) - 1))

\* str.strip()
Strip(s) == RStrip(LStrip(s))

\* str.startswith(p)
StartsWith(s, p) == Len(s) >= Len(p) /\ SubSeq(s, 1, Len(p)) = p

\* str.startswith((p1, p2, ...))
StartsWithAny(s, ps) == \E p \in ps : StartsWith(s, p)

\* p in s
Contains(s, p) == \E i \in 1..(Len(s) - Len(p) + 1) : SubSeq(s, i, i + Len(p) - 1) = p

RECURSIVE Find(_, _, _)
\* the first index >= i of s that holds c, or 0
Find(s, c, i) == IF i > Len(s) THEN 0 ELSE IF s[i] = c THEN i ELSE Find(s, c, i + 1)

RECURSIVE Split(_, _)
\* str.split(c), c one character
Split(s, c) ==
    LET at == Find(s, c, 1)
    IN  IF at = 0 THEN <<s>>
        ELSE <<SubSeq(s, 1, at - 1)>> \o Split(SubSeq(s, at + 1, Len(s)), c)

RECURSIVE Join(_, _)
\* sep.join(parts)
Join(parts, sep) ==
    IF parts = <<>> THEN <<>>
    ELSE IF Len(parts) = 1 THEN parts[1]
    ELSE parts[1] \o sep \o Join(Tail(parts), sep)

\* str.replace(' ', '')
RemoveSpaces(s) == SelectSeq(s, LAMBDA c : c # SP)

----------------------------------------------------------------------------
(* The literals of agents.py *)

kw_cenario == <<"c","e","n","á","r","i","o">>

kw_dado == <<"d","a","d","o">>

kw_quando == <<"q","u","a","n","d","o">>

kw_entao == <<"e","n","t","ã","o">>

kw_e == <<"e"," ">>

kw_mas == <<"m","a","s"," ">>

StepPrefixes == {kw_dado, kw_quando, kw_entao, kw_e, kw_mas}

kw_insight == <<"i","n","s","i","g","h","t">>

kw_preocupa == <<"p","r","e","o","c","u","p","a">>

kw_concern == <<"c","o","n","c","e","r","n">>

kw_sugest == <<"s","u","g","e","s","t">>

\* the character U+2022, which the module's character set cannot spell
BULLET == "U+2022"

BulletPrefixes == {<<"-", SP>>, <<"*", SP>>, <<BULLET, SP>>}

Colon == <<":">>

Indent == <<SP, SP, SP, SP>>

\* "Erro: Resposta vazia da API"
EmptyReplyText ==
    <<"E","r","r","o",":"," ","R","e","s","p","o","s","t","a"," ",
      "v","a","z","i","a"," ","d","a"," ","A","P","I">>

\* "Erro na análise: "
ErrorInsightPrefix ==
    <<"E","r","r","o"," ","n","a"," ","a","n","á","l","i","s","e",":"," ">>

\* "Falha na geração de cenários"
FailureConcern ==
    <<"F","a","l","h","a"," ","n","a"," ","g","e","r","a","ç","ã","o"," ",
      "d","e"," ","c","e","n","á","r","i","o","s">>

----------------------------------------------------------------------------
(* BaseAgent._format_bdd_scenario and BaseAgent._parse_response *)

\* a formatter that strips the right side of a line only
FormatLineRStrip(raw) ==
    LET line == RStrip(raw)
    IN  IF line = <<>> THEN <<>>
        ELSE IF Contains(Lower(line), kw_cenario) /\ Contains(line, Colon)
             THEN <<line>>
             ELSE <<Indent \o line>>

\* one line of _format_bdd_scenario: the lines it keeps, formatted
FormatLine(raw) ==
    LET line == Strip(raw)
    IN  IF line = <<>> THEN <<>>
        ELSE IF Contains(Lower(line), kw_cenario) /\ Contains(line, Colon)
             THEN <<line>>
             ELSE <<Indent \o line>>

_format_bdd_scenario(scenario) ==
    LET lines == Split(scenario, NL)
    IN  Join(Concat([i \in 1..Len(lines) |-> FormatLine(lines[i])]), <<NL>>)

\* a parser that starts inside the insights section
ParseInitInInsights ==
    [scenarios |-> <<>>, insights |-> <<>>, concerns |-> <<>>, suggestions |-> <<>>,
     current_section |-> "insights", current_scenario |-> <<>>]

\* the local variables of _parse_response before its loop
ParseInit ==
    [scenarios |-> <<>>, insights |-> <<>>, concerns |-> <<>>, suggestions |-> <<>>,
     current_section |-> "None", current_scenario |-> <<>>]

\* a parser that keeps a step line in whatever section it comes
ParseLineStepsAnywhere(st, raw) ==
    LET line == Strip(raw)
        low  == Lower(line)
    IN  IF line = <<>> THEN st
        ELSE IF StartsWith(low, kw_cenario) /\ Contains(line, Colon) THEN
            [st EXCEPT !.scenarios = IF st.current_scenario # <<>>
                                     THEN Append(@, Join(st.current_scenario, <<NL>>))
                                     ELSE @,
                       !.current_scenario = <<line>>,
                       !.current_section = "scenario"]
        ELSE IF StartsWithAny(low, StepPrefixes) THEN
            IF st.current_scenario # <<>>
            THEN [st EXCEPT !.current_scenario = Append(@, line)]
            ELSE st
        ELSE IF Contains(low, kw_insight) THEN
            [st EXCEPT !.current_section = "insights"]
        ELSE IF Contains(low, kw_preocupa) \/ Contains(low, kw_concern) THEN
            [st EXCEPT !.current_section = "concerns"]
        ELSE IF Contains(low, kw_sugest) THEN
            [st EXCEPT !.current_section = "suggestions"]
        ELSE IF StartsWithAny(line, BulletPrefixes) THEN
            LET clean_line == Strip(PySliceFrom(line, 2))
            IN  IF st.current_section = "insights"
                THEN [st EXCEPT !.insights = Append(@, clean_line)]
                ELSE IF st.current_section = "concerns"
                THEN [st EXCEPT !.concerns = Append(@, clean_line)]
                ELSE IF st.current_section = "suggestions"
                THEN [st EXCEPT !.suggestions = Append(@, clean_line)]
                ELSE st
        ELSE st

\* one turn of the loop of _parse_response
ParseLine(st, raw) ==
    LET line == Strip(raw)
        low  == Lower(line)
    IN  IF line = <<>> THEN st
        ELSE IF StartsWith(low, kw_cenario) /\ Contains(line, Colon) THEN
            [st EXCEPT !.scenarios = IF st.current_scenario # <<>>
                                     THEN Append(@, Join(st.current_scenario, <<NL>>))
                                     ELSE @,
                       !.current_scenario = <<line>>,
                       !.current_section = "scenario"]
        ELSE IF StartsWithAny(low, StepPrefixes) THEN
            IF st.current_section = "scenario"
            THEN [st EXCEPT !.current_scenario = Append(@, line)]
            ELSE st
        ELSE IF Contains(low, kw_insight) THEN
            [st EXCEPT !.current_section = "insights"]
        ELSE IF Contains(low, kw_preocupa) \/ Contains(low, kw_concern) THEN
            [st EXCEPT !.current_section = "concerns"]
        ELSE IF Contains(low, kw_sugest) THEN
            [st EXCEPT !.current_section = "suggestions"]
        ELSE IF StartsWithAny(line, BulletPrefixes) THEN
            LET clean_line == Strip(PySliceFrom(line, 2))
            IN  IF st.current_section = "insights"
                THEN [st EXCEPT !.insights = Append(@, clean_line)]
                ELSE IF st.current_section = "concerns"
                THEN [st EXCEPT !.concerns = Append(@, clean_line)]
                ELSE IF st.current_section = "suggestions"
                THEN [st EXCEPT !.suggestions = Append(@, clean_line)]
                ELSE st
        ELSE st

RECURSIVE ParseLoop(_, _)
ParseLoop(st, lines) ==
    IF lines = <<>> THEN st ELSE ParseLoop(ParseLine(st, Head(lines)), Tail(lines))

\* AgentOutput(agent_role=..., scenarios=..., insights=..., concerns=..., suggestions=...)
AgentOutput(role, scenarios, insights, concerns, suggestions) ==
    [agent_role |-> role, scenarios |-> scenarios, insights |-> insights,
     concerns |-> concerns, suggestions |-> suggestions]

_parse_response(role, content) ==
    LET st == ParseLoop(ParseInit, Split(Strip(content), NL))
        scenarios == IF st.current_scenario # <<>>
                     THEN Append(st.scenarios,
                                 _format_bdd_scenario(Join(st.current_scenario, <<NL>>)))
                     ELSE st.scenarios
    IN  AgentOutput(role,
                    [i \in 1..Len(scenarios) |-> _format_bdd_scenario(scenarios[i])],
                    st.insights, st.concerns, st.suggestions)

----------------------------------------------------------------------------
(* models.py: AgentRole, AgentInput, CollaborationConfig *)

PO == "product_owner"

QA == "quality_assurance"

PM == "product_manager"

TECH_LEAD == "tech_lead"

AgentRole == {PM, PO, TECH_LEAD, QA}

\* AgentInput(user_story=..., context=..., previous_scenarios=...)
AgentInput(story, context, previous_scenarios) ==
    [user_story |-> story, context |-> context, previous_scenarios |-> previous_scenarios]

\* CollaborationConfig(...), every field given
CollaborationConfig(enabled, rounds, cap, cross, negative, edge) ==
    [enabled_agents |-> enabled, collaboration_rounds |-> rounds,
     max_scenarios_per_agent |-> cap, include_cross_validation |-> cross,
     include_negative |-> negative, include_edge_cases |-> edge]

----------------------------------------------------------------------------
(* Python dict, insertion-ordered *)

DictKeys(d) == [i \in 1..Len(d) |-> d[i].key]

DictValues(d) == [i \in 1..Len(d) |-> d[i].value]

DictHas(d, k) == \E i \in 1..Len(d) : d[i].key = k

DictGet(d, k) == d[CHOOSE i \in 1..Len(d) : d[i].key = k].value

\* d[k] = v: a key already present keeps its place
DictSet(d, k, v) ==
    IF DictHas(d, k)
    THEN [i \in 1..Len(d) |-> IF d[i].key = k THEN [key |-> k, value |-> v] ELSE d[i]]
    ELSE Append(d, [key |-> k, value |-> v])

----------------------------------------------------------------------------
(* BaseAgent.analyze *)

\* temperature = agent_input.context.get("temperature", 0.3), in tenths
DefaultTemperatureTenths == 3

DefaultMaxScenarios == 3

\* a worker that reads the context with "context.get(key) or default": a
\* value that is falsy (0) gives way to the default
TransportCallFalsyDefault(role, request) ==
    LET context == request.context
        temperature == IF "temperature" \in DOMAIN context
                       THEN context.temperature ELSE DefaultTemperatureTenths
        max_scenarios == IF "max_scenarios_per_agent" \in DOMAIN context
                         THEN context.max_scenarios_per_agent ELSE DefaultMaxScenarios
    IN  [role |-> role,
         user_story |-> request.user_story,
         temperature |-> IF temperature = 0 THEN DefaultTemperatureTenths ELSE temperature,
         max_scenarios |-> IF max_scenarios = 0 THEN DefaultMaxScenarios ELSE max_scenarios,
         include_negative |-> IF "include_negative" \in DOMAIN context
                              THEN context.include_negative ELSE FALSE,
         include_edge_cases |-> IF "include_edge_cases" \in DOMAIN context
                                THEN context.include_edge_cases ELSE FALSE,
         context |-> context,
         previous_scenarios |-> request.previous_scenarios]

\* what analyze sends to the transport: the parameters that _create_user_prompt
\* and analyze read from the request
TransportCall(role, request) ==
    LET context == request.context
    IN  [role |-> role,
         user_story |-> request.user_story,
         temperature |-> IF "temperature" \in DOMAIN context
                         THEN context.temperature ELSE DefaultTemperatureTenths,
         max_scenarios |-> IF "max_scenarios_per_agent" \in DOMAIN context
                           THEN context.max_scenarios_per_agent ELSE DefaultMaxScenarios,
         include_negative |-> IF "include_negative" \in DOMAIN context
                              THEN context.include_negative ELSE FALSE,
         include_edge_cases |-> IF "include_edge_cases" \in DOMAIN context
                                THEN context.include_edge_cases ELSE FALSE,
         context |-> context,
         previous_scenarios |-> request.previous_scenarios]

\* a recovered failure that reports no concern
RecoveredFailureNoConcern(role, e) ==
    AgentOutput(role, <<>>, <<ErrorInsightPrefix \o e>>, <<>>, <<>>)

\* a recovered failure that reports the role PO whatever the worker's role
RecoveredFailureAsPO(role, e) ==
    AgentOutput(PO, <<>>, <<ErrorInsightPrefix \o e>>, <<FailureConcern>>, <<>>)

\* a recovered failure that reports nothing at all
RecoveredFailureSilent(role, e) == AgentOutput(role, <<>>, <<>>, <<>>, <<>>)

\* the except branch of analyze: the Response of a recovered failure
RecoveredFailure(role, e) ==
    AgentOutput(role, <<>>, <<ErrorInsightPrefix \o e>>, <<FailureConcern>>, <<>>)

----------------------------------------------------------------------------
(* MultiAgentOrchestrator *)

\* the keys of self._agents, in the order of the dict
_agents == <<PO, QA, PM, TECH_LEAD>>

\* the model every worker is built with (the default of __init__)
DefaultModel == "gpt-4o-mini"

\* BaseAgent.__init__: the attributes of the worker of a role; client is the
\* AsyncOpenAI object the constructor makes for it
BaseAgent(role, model) ==
    [client |-> <<"AsyncOpenAI", role>>, model |-> model, role |-> role]

\* the dict _initialize_agents returns: one worker for each key
_initialize_agents == [role \in AgentRole |-> BaseAgent(role, DefaultModel)]

\* an analyze that overwrites self.role
AnalyzeSelfTakesRolePO(self) == [self EXCEPT !.role = PO]

\* the attributes of a worker after a step of analyze: analyze and what it
\* calls assign to no attribute of self
AnalyzeSelf(self) == self

\* a loop body that takes the roles out of enabled_agents as it runs them
ConfigAfterRoundConsumes(cfg) == [cfg EXCEPT !.enabled_agents = <<>>]

\* config after a turn of the loop of _orchestrate_collaboration: the body
\* reads collaboration_rounds, max_scenarios_per_agent, the two flags and
\* the items of enabled_agents, and assigns to none of them
ConfigAfterRound(cfg) == cfg

InAgents(role) == \E i \in 1..Len(_agents) : _agents[i] = role

\* active_agents, as the roles of the agents
ActiveAgents(cfg) == SelectSeq(cfg.enabled_agents, InAgents)

\* a Request whose context also carries the cross-validation flag
BuildAgentInputWithCross(story, cfg, rn, scenarios) ==
    AgentInput(story,
               [round |-> rn + 1,
                total_rounds |-> cfg.collaboration_rounds,
                max_scenarios_per_agent |-> cfg.max_scenarios_per_agent,
                include_negative |-> cfg.include_negative,
                include_edge_cases |-> cfg.include_edge_cases,
                include_cross_validation |-> cfg.include_cross_validation],
               scenarios)

\* the AgentInput of round round_num + 1
BuildAgentInput(story, cfg, rn, scenarios) ==
    AgentInput(story,
               [round |-> rn + 1,
                total_rounds |-> cfg.collaboration_rounds,
                max_scenarios_per_agent |-> cfg.max_scenarios_per_agent,
                include_negative |-> cfg.include_negative,
                include_edge_cases |-> cfg.include_edge_cases],
               scenarios)

\* id() of the list that "all_scenarios: List[str] = []" makes before the loop
AllScenariosId == <<"list", 0>>

\* id() of the objects that the turn round_num = rn of the loop makes: the
\* AgentInput, its context dict and the list all_scenarios.copy()
AgentInputIds(rn) ==
    [agent_input |-> <<"AgentInput", rn + 1>>,
     context |-> <<"dict", rn + 1>>,
     previous_scenarios |-> <<"list", rn + 1>>]

\* a round that runs every registered agent when none is enabled
NewTasksDefaultAll(cfg, rn) ==
    LET active == IF ActiveAgents(cfg) = <<>> THEN _agents ELSE ActiveAgents(cfg)
    IN  [i \in 1..Len(active) |->
            [role |-> active[i], argument |-> AgentInputIds(rn), state |-> "created",
             call |-> <<>>, reply |-> <<>>, result |-> <<>>]]

\* tasks = [agent.analyze(agent_input) for agent in active_agents]: coroutines
\* that have not started, each holding the argument it was called with
NewTasks(cfg, rn) ==
    LET active == ActiveAgents(cfg)
    IN  [i \in 1..Len(active) |->
            [role |-> active[i], argument |-> AgentInputIds(rn), state |-> "created",
             call |-> <<>>, reply |-> <<>>, result |-> <<>>]]

\* a Request whose previous_scenarios shows what the round has returned so far
TaskRequestLive(input, ts, i) ==
    [input EXCEPT !.previous_scenarios =
        @ \o Concat([j \in 1..Len(ts) |->
                        IF ts[j].state = "done" THEN ts[j].result[1].scenarios ELSE <<>>])]

\* the Request that the i-th awaitable of the round was called with: every one
\* was called with the one agent_input object
TaskRequest(input, ts, i) == input

\* awaitables run one after the other
CanStartSequential(ts, i) ==
    /\ ts[i].state = "created"
    /\ \A j \in 1..(i - 1) : ts[j].state = "done"

\* asyncio.gather schedules every awaitable at once, in list order: the i-th
\* can take its first step as soon as those before it have taken theirs
CanStart(ts, i) ==
    /\ ts[i].state = "created"
    /\ \A j \in 1..(i - 1) : ts[j].state # "created"

\* a wait that ends with the first awaitable that returns
GatherCompleteAny(ts) == \E i \in 1..Len(ts) : ts[i].state = "done"

\* asyncio.gather(*tasks) has its result: every awaitable has returned
GatherComplete(ts) == \A i \in 1..Len(ts) : ts[i].state = "done"

\* asyncio.gather(*tasks) raises: an awaitable raised
GatherRaises(ts) == \E i \in 1..Len(ts) : ts[i].state = "raised"

\* the number a reply's first scenario title carries, 0 when there is none
TitleNumber(reply) ==
    IF reply # <<>> /\ reply[1].kind = "content" /\ Len(reply[1].text) >= 9
            /\ \E d \in 1..9 : reply[1].text[9] = ToString(d)
    THEN CHOOSE d \in 1..9 : reply[1].text[9] = ToString(d)
    ELSE 0

\* a gather that returns the results in the order the awaitables completed,
\* for a transport whose k-th reply of a round is the text numbered k
GatherOutputsAsCompleted(ts) ==
    LET finished == SelectSeq(ts, LAMBDA t : t.state = "done")
        at(k) == CHOOSE i \in 1..Len(finished) :
                    Cardinality({j \in 1..Len(finished) :
                        \/ TitleNumber(finished[j].reply) < TitleNumber(finished[i].reply)
                        \/ /\ TitleNumber(finished[j].reply) = TitleNumber(finished[i].reply)
                           /\ j < i}) = k - 1
    IN  [k \in 1..Len(finished) |-> finished[at(k)].result[1]]

\* outputs, the list gather returns: the results in the order of tasks
GatherOutputs(ts) ==
    LET finished == SelectSeq(ts, LAMBDA t : t.state = "done")
    IN  [i \in 1..Len(finished) |-> finished[i].result[1]]

\* a merge that keeps the first Response of a role
MergeOutputFirstWins(acc, output, cap) ==
    [agent_outputs |-> IF DictHas(acc.agent_outputs, output.agent_role)
                       THEN acc.agent_outputs
                       ELSE DictSet(acc.agent_outputs, output.agent_role, output),
     all_scenarios |-> acc.all_scenarios \o PySliceTo(output.scenarios, cap)]

\* a merge that misses the slice
MergeOutputUncapped(acc, output, cap) ==
    [agent_outputs |-> DictSet(acc.agent_outputs, output.agent_role, output),
     all_scenarios |-> acc.all_scenarios \o output.scenarios]

\* a merge that adds a role's new scenarios to those it had
MergeOutputAccumulates(acc, output, cap) ==
    [agent_outputs |->
        DictSet(acc.agent_outputs, output.agent_role,
                IF DictHas(acc.agent_outputs, output.agent_role)
                THEN [output EXCEPT !.scenarios =
                        DictGet(acc.agent_outputs, output.agent_role).scenarios \o @]
                ELSE output),
     all_scenarios |-> acc.all_scenarios \o PySliceTo(output.scenarios, cap)]

\* one turn of "for output in outputs"
MergeOutput(acc, output, cap) ==
    [agent_outputs |-> DictSet(acc.agent_outputs, output.agent_role, output),
     all_scenarios |-> acc.all_scenarios \o PySliceTo(output.scenarios, cap)]

RECURSIVE MergeOutputs(_, _, _)
\* "for output in outputs: ..."
MergeOutputs(acc, outputs, cap) ==
    IF outputs = <<>> THEN acc
    ELSE MergeOutputs(MergeOutput(acc, Head(outputs), cap), Tail(outputs), cap)

\* a key that misses .lower()
ScenarioHashCaseSensitive(scenario) == RemoveSpaces(scenario)

\* scenario.lower().replace(' ', ''); hash() is taken to be injective on the
\* texts of a run
ScenarioHash(scenario) == RemoveSpaces(Lower(scenario))

\* a priority list that misses a role
PriorityOrderShort == <<PO, QA, PM>>

priority_order == <<PO, QA, PM, TECH_LEAD>>

\* a consolidation that drops nothing
ConsolidateScenarioKeepAll(acc, scenario) ==
    [all |-> Append(acc.all, scenario), seen |-> acc.seen \cup {ScenarioHash(scenario)}]

\* a consolidation that puts a new scenario first
ConsolidateScenarioPrepend(acc, scenario) ==
    IF ScenarioHash(scenario) \notin acc.seen
    THEN [all |-> <<scenario>> \o acc.all, seen |-> acc.seen \cup {ScenarioHash(scenario)}]
    ELSE acc

\* "if scenario_hash not in seen_scenarios: append, add", acc the pair of
\* all_scenarios and seen_scenarios
ConsolidateScenario(acc, scenario) ==
    IF ScenarioHash(scenario) \notin acc.seen
    THEN [all |-> Append(acc.all, scenario), seen |-> acc.seen \cup {ScenarioHash(scenario)}]
    ELSE acc

RECURSIVE ConsolidateList(_, _)
\* "for scenario in agent_outputs[role].scenarios: ..."
ConsolidateList(acc, scenarios) ==
    IF scenarios = <<>> THEN acc
    ELSE ConsolidateList(ConsolidateScenario(acc, Head(scenarios)), Tail(scenarios))

RECURSIVE ConsolidateRoles(_, _, _)
\* "for role in priority_order: if role in agent_outputs: ..."
ConsolidateRoles(acc, roles, outputs) ==
    IF roles = <<>> THEN acc
    ELSE ConsolidateRoles(
            IF DictHas(outputs, Head(roles))
            THEN ConsolidateList(acc, DictGet(outputs, Head(roles)).scenarios)
            ELSE acc,
            Tail(roles), outputs)

\* a consolidation that visits the roles as the map holds them
ConsolidateInsertionOrder(outputs) ==
    ConsolidateRoles([all |-> <<>>, seen |-> {}], DictKeys(outputs), outputs).all

_consolidate_scenarios(outputs) ==
    ConsolidateRoles([all |-> <<>>, seen |-> {}], priority_order, outputs).all

\* lines[0][:50]
MaxNameLen == 50

\* "Funcionalidade extraída da história"
PlaceholderName ==
    <<"F","u","n","c","i","o","n","a","l","i","d","a","d","e"," ","e","x","t","r","a","í","d","a"," ","d","a"," ","h","i","s","t","ó","r","i","a">>

Ellipsis == <<".", ".", ".">>

\* a labelling that also cuts a first line of exactly the maximum length
ExtractFeatureInfoCutAtMax(story) ==
    LET lines == Split(Strip(story), NL)
    IN  IF Len(lines) >= 3
        THEN <<PlaceholderName, Strip(story)>>
        ELSE <<IF Len(lines[1]) >= MaxNameLen
               THEN PySliceTo(lines[1], MaxNameLen) \o Ellipsis
               ELSE lines[1],
               Strip(story)>>

\* the pair (feature_name, feature_description)
_extract_feature_info(story) ==
    LET lines == Split(Strip(story), NL)
    IN  IF Len(lines) >= 3
        THEN <<PlaceholderName, Strip(story)>>
        ELSE <<IF Len(lines[1]) > MaxNameLen
               THEN PySliceTo(lines[1], MaxNameLen) \o Ellipsis
               ELSE lines[1],
               Strip(story)>>

\* "Funcionalidade: "
GherkinHeader == <<"F","u","n","c","i","o","n","a","l","i","d","a","d","e",":"," ">>

\* scenario lines with an empty line after every scenario, the last included
GherkinScenarioLinesAllSeparated(scenario, i, n) ==
    LET scenario_lines == Split(scenario, NL)
        kept == SelectSeq(scenario_lines, LAMBDA line : Strip(line) # <<>>)
    IN  [k \in 1..Len(kept) |-> <<SP, SP>> \o kept[k]] \o << <<>> >>

\* the lines one scenario adds to gherkin_lines, i its 1-based index of n
GherkinScenarioLines(scenario, i, n) ==
    LET scenario_lines == Split(scenario, NL)
        kept == SelectSeq(scenario_lines, LAMBDA line : Strip(line) # <<>>)
    IN  [k \in 1..Len(kept) |-> <<SP, SP>> \o kept[k]]
        \o (IF i < n THEN << <<>> >> ELSE <<>>)

_generate_gherkin_content(feature_name, feature_description, scenarios) ==
    LET header == <<GherkinHeader \o feature_name, <<SP, SP>> \o feature_description, <<>> >>
        body == Concat([i \in 1..Len(scenarios) |->
                            GherkinScenarioLines(scenarios[i], i, Len(scenarios))])
    IN  Join(header \o body, <<NL>>)

\* min(100.0, ...), in tenths
ScoreCapTenths == 1000

\* metrics whose score misses min(100.0, ...)
MetricsUncapped(outputs) ==
    LET values == DictValues(outputs)
        total_scenarios == SumSeq([i \in 1..Len(values) |-> Len(values[i].scenarios)])
        total_insights == SumSeq([i \in 1..Len(values) |-> Len(values[i].insights)])
        total_concerns == SumSeq([i \in 1..Len(values) |-> Len(values[i].concerns)])
    IN  [total_scenarios |-> total_scenarios,
         total_insights |-> total_insights,
         total_concerns |-> total_concerns,
         agents_participated |-> Len(outputs),
         scenarios_per_agent |-> IF outputs # <<>>
                                 THEN [num |-> total_scenarios, den |-> Len(outputs)]
                                 ELSE [num |-> 0, den |-> 1],
         collaboration_score_tenths |->
            total_scenarios * 10 + total_insights * 5]

\* metrics that count the scenarios left after consolidation
MetricsAfterDedup(outputs) ==
    LET values == DictValues(outputs)
        total_scenarios == Len(_consolidate_scenarios(outputs))
        total_insights == SumSeq([i \in 1..Len(values) |-> Len(values[i].insights)])
        total_concerns == SumSeq([i \in 1..Len(values) |-> Len(values[i].concerns)])
    IN  [total_scenarios |-> total_scenarios,
         total_insights |-> total_insights,
         total_concerns |-> total_concerns,
         agents_participated |-> Len(outputs),
         scenarios_per_agent |-> IF outputs # <<>>
                                 THEN [num |-> total_scenarios, den |-> Len(outputs)]
                                 ELSE [num |-> 0, den |-> 1],
         collaboration_score_tenths |->
            Min2(ScoreCapTenths, total_scenarios * 10 + total_insights * 5)]

\* metrics that divide by the number of roles whatever it is
MetricsUnguarded(outputs) ==
    LET values == DictValues(outputs)
        total_scenarios == SumSeq([i \in 1..Len(values) |-> Len(values[i].scenarios)])
        total_insights == SumSeq([i \in 1..Len(values) |-> Len(values[i].insights)])
        total_concerns == SumSeq([i \in 1..Len(values) |-> Len(values[i].concerns)])
    IN  [total_scenarios |-> total_scenarios,
         total_insights |-> total_insights,
         total_concerns |-> total_concerns,
         agents_participated |-> Len(outputs),
         scenarios_per_agent |-> [num |-> total_scenarios, den |-> Len(outputs)],
         collaboration_score_tenths |->
            Min2(ScoreCapTenths, total_scenarios * 10 + total_insights * 5)]

\* the metrics but total_time_seconds, which is the clock's; scenarios_per_agent
\* is the fraction num/den and collaboration_score is in tenths
_calculate_quality_metrics(outputs) ==
    LET values == DictValues(outputs)
        total_scenarios == SumSeq([i \in 1..Len(values) |-> Len(values[i].scenarios)])
        total_insights == SumSeq([i \in 1..Len(values) |-> Len(values[i].insights)])
        total_concerns == SumSeq([i \in 1..Len(values) |-> Len(values[i].concerns)])
    IN  [total_scenarios |-> total_scenarios,
         total_insights |-> total_insights,
         total_concerns |-> total_concerns,
         agents_participated |-> Len(outputs),
         scenarios_per_agent |-> IF outputs # <<>>
                                 THEN [num |-> total_scenarios, den |-> Len(outputs)]
                                 ELSE [num |-> 0, den |-> 1],
         collaboration_score_tenths |->
            Min2(ScoreCapTenths, total_scenarios * 10 + total_insights * 5)]

\* a summary that takes every insight of every participant
SummaryInsightsUncut(outputs) ==
    LET values == DictValues(outputs)
    IN  [participating_agents |-> DictKeys(outputs),
         total_scenarios_generated |->
            SumSeq([i \in 1..Len(values) |-> Len(values[i].scenarios)]),
         key_insights |-> Concat([i \in 1..Len(values) |-> values[i].insights]),
         main_concerns |-> Concat([i \in 1..Len(values) |-> PySliceTo(values[i].concerns, 1)])]

\* the summary but collaboration_timestamp, which is the clock's
_create_collaboration_summary(outputs) ==
    LET values == DictValues(outputs)
    IN  [participating_agents |-> DictKeys(outputs),
         total_scenarios_generated |->
            SumSeq([i \in 1..Len(values) |-> Len(values[i].scenarios)]),
         key_insights |-> Concat([i \in 1..Len(values) |-> PySliceTo(values[i].insights, 2)]),
         main_concerns |-> Concat([i \in 1..Len(values) |-> PySliceTo(values[i].concerns, 1)])]

\* the MultiAgentResponse that generate_bdd_scenarios builds from what
\* _orchestrate_collaboration returned
BuildResponse(story, outputs) ==
    LET feature == _extract_feature_info(story)
        consolidated_scenarios == _consolidate_scenarios(outputs)
    IN  [feature_name |-> feature[1],
         feature_description |-> feature[2],
         agent_outputs |-> outputs,
         consolidated_scenarios |-> consolidated_scenarios,
         collaboration_summary |-> _create_collaboration_summary(outputs),
         gherkin_content |->
            _generate_gherkin_content(feature[1], feature[2], consolidated_scenarios),
         quality_metrics |-> _calculate_quality_metrics(outputs)]

\* an except branch that returns what there is
SwallowAndReturn(story, outputs) ==
    [pc |-> "returned", response |-> <<BuildResponse(story, outputs)>>]

\* generate_bdd_scenarios leaves by an exception: the caller gets no response
RaiseToCaller(story, outputs) == [pc |-> "raised", response |-> <<>>]

----------------------------------------------------------------------------
(* The inputs of a run *)

\* "Cenário 1: X\nDado y"
ReplyPlain ==
    <<"C","e","n","á","r","i","o"," ","1",":"," ","X","\n","D","a","d","o"," ","y">>

\* "CENÁRIO 1:  X\n  dado  y\n\nCenário 2: Z\nInsights:\n- a\n- b\n- c"
ReplyUpperTwo ==
    <<"C","E","N","Á","R","I","O"," ","1",":"," "," ","X","\n"," "," ","d","a","d","o"," "," ","y","\n","\n","C","e","n","á","r","i","o"," ","2",":"," ","Z","\n","I","n","s","i","g","h","t","s",":","\n","-"," ","a","\n","-"," ","b","\n","-"," ","c">>

\* "Cenário 1:\tX\nDado y\nPreocupações:\n* p\nSugestões:\n- s"
ReplyTab ==
    <<"C","e","n","á","r","i","o"," ","1",":","\t","X","\n","D","a","d","o"," ","y","\n","P","r","e","o","c","u","p","a","ç","õ","e","s",":","\n","*"," ","p","\n","S","u","g","e","s","t","õ","e","s",":","\n","-"," ","s">>

\* the texts a transport answers with
ReplyTexts == {ReplyPlain, ReplyUpperTwo, ReplyTab}

\* str(e) of the exceptions a transport raises
ErrorMessages == { <<"t","i","m","e","o","u","t">> }

\* _parse_response on the texts of the model, for every role
ParsedReply ==
    [role \in AgentRole, text \in ReplyTexts \cup {EmptyReplyText} |->
        _parse_response(role, text)]

\* an analyze without the test for None: parsing None raises and the except
\* branch recovers
AnalyzeContentUnguarded(role, content) ==
    IF content = <<>>
    THEN RecoveredFailure(role, <<"N","o","n","e","T","y","p","e">>)
    ELSE _parse_response(role, content[1])

\* analyze once the transport has answered with message content `content`
\* (<<>> for None, <<text>> otherwise): _parse_response of it
AnalyzeContent(role, content) ==
    LET text == IF content = <<>> THEN EmptyReplyText ELSE content[1]
    IN  IF text \in ReplyTexts \cup {EmptyReplyText}
        THEN ParsedReply[role, text]
        ELSE _parse_response(role, text)

\* "Login"
StoryLogin == <<"L","o","g","i","n">>

Stories == {StoryLogin}

\* collaboration_rounds as the caller's form allows it (main.py: max_value=3),
\* and 0
MaxRounds == 3

\* the lists of enabled_agents: none, one, two in either order, one role
\* twice, three and all four
EnabledChoices ==
    {<<>>, <<PO>>, <<PO, QA>>, <<QA, PO>>, <<PO, PO>>, <<TECH_LEAD, PM, QA>>,
     <<QA, TECH_LEAD, PO, PM>>}

Configs ==
    {CollaborationConfig(enabled, rounds, cap, TRUE, negative, FALSE) :
        enabled \in EnabledChoices,
        rounds \in 0..MaxRounds, cap \in 1..MaxCap, negative \in BOOLEAN}

\* the configurations of the model: at most MaxCalls worker invocations
BoundedConfigs ==
    {cfg \in Configs : Len(cfg.enabled_agents) * cfg.collaboration_rounds <= MaxCalls}

----------------------------------------------------------------------------
(* The state machine: one call of generate_bdd_scenarios *)

Init ==
    /\ config \in BoundedConfigs
    /\ user_story \in Stories
    /\ pc = "idle"
    /\ round_num = 0
    /\ agent_outputs = <<>>
    /\ all_scenarios = <<>>
    /\ agent_input = <<>>
    /\ tasks = <<>>
    /\ response = <<>>
    /\ round_log = <<>>
    /\ agents = _initialize_agents
    /\ other = <<>>

\* generate_bdd_scenarios is called and enters _orchestrate_collaboration
Call ==
    /\ pc = "idle"
    /\ pc' = "loop"
    /\ round_num' = 0
    /\ agent_outputs' = <<>>
    /\ all_scenarios' = <<>>
    /\ UNCHANGED <<agents, other, config, user_story, agent_input, tasks, response, round_log>>

\* one more turn of "for round_num in range(...)", up to "await asyncio.gather"
RoundBegin ==
    /\ pc = "loop"
    /\ round_num < config.collaboration_rounds
    /\ agent_input' = <<BuildAgentInput(user_story, config, round_num, all_scenarios)>>
    /\ tasks' = NewTasks(config, round_num)
    /\ pc' = "gather"
    /\ UNCHANGED <<agents, other, config, user_story, round_num, agent_outputs, all_scenarios,
                   response, round_log>>

\* analyze runs up to "await self.client.chat.completions.create"
TaskStart(i) ==
    /\ pc = "gather"
    /\ CanStart(tasks, i)
    /\ tasks' = [tasks EXCEPT ![i].state = "awaiting",
                              ![i].call = <<TransportCall(agents[tasks[i].role].role,
                                                          TaskRequest(agent_input[1], tasks, i))>>]
    /\ agents' = [agents EXCEPT ![tasks[i].role] = AnalyzeSelf(@)]
    /\ UNCHANGED <<other, config, user_story, pc, round_num, agent_outputs, all_scenarios,
                   agent_input, response, round_log>>

\* the transport answers with a text: analyze returns what it parses
TransportReply(i, text) ==
    /\ pc = "gather"
    /\ tasks[i].state = "awaiting"
    /\ tasks' = [tasks EXCEPT ![i].state = "done",
                              ![i].reply = <<[kind |-> "content", text |-> text]>>,
                              ![i].result = <<AnalyzeContent(agents[tasks[i].role].role, <<text>>)>>]
    /\ agents' = [agents EXCEPT ![tasks[i].role] = AnalyzeSelf(@)]
    /\ UNCHANGED <<other, config, user_story, pc, round_num, agent_outputs, all_scenarios,
                   agent_input, response, round_log>>

\* the transport answers with no content (None)
TransportNull(i) ==
    /\ pc = "gather"
    /\ tasks[i].state = "awaiting"
    /\ tasks' = [tasks EXCEPT ![i].state = "done",
                              ![i].reply = <<[kind |-> "null", text |-> <<>>]>>,
                              ![i].result = <<AnalyzeContent(agents[tasks[i].role].role, <<>>)>>]
    /\ agents' = [agents EXCEPT ![tasks[i].role] = AnalyzeSelf(@)]
    /\ UNCHANGED <<other, config, user_story, pc, round_num, agent_outputs, all_scenarios,
                   agent_input, response, round_log>>

\* the transport raises an Exception: analyze recovers
TransportFail(i, e) ==
    /\ pc = "gather"
    /\ tasks[i].state = "awaiting"
    /\ tasks' = [tasks EXCEPT ![i].state = "done",
                              ![i].reply = <<[kind |-> "error", text |-> e]>>,
                              ![i].result = <<RecoveredFailure(agents[tasks[i].role].role, e)>>]
    /\ agents' = [agents EXCEPT ![tasks[i].role] = AnalyzeSelf(@)]
    /\ UNCHANGED <<other, config, user_story, pc, round_num, agent_outputs, all_scenarios,
                   agent_input, response, round_log>>

\* the await in analyze raises what "except Exception" does not catch (a
\* BaseException such as asyncio.CancelledError): analyze raises
TaskEscape(i) ==
    /\ pc = "gather"
    /\ tasks[i].state = "awaiting"
    /\ tasks' = [tasks EXCEPT ![i].state = "raised",
                              ![i].reply = <<[kind |-> "escape", text |-> <<>>]>>]
    /\ agents' = [agents EXCEPT ![tasks[i].role] = AnalyzeSelf(@)]
    /\ UNCHANGED <<other, config, user_story, pc, round_num, agent_outputs, all_scenarios,
                   agent_input, response, round_log>>

\* a loop that leaves out every other round
NextRoundSkips(rn) == rn + 2

\* the value "for round_num in range(config.collaboration_rounds)" gives
\* round_num after rn
NextRound(rn) == rn + 1

\* gather returns outputs; "for output in outputs" merges them; the loop turns
GatherReturn ==
    /\ pc = "gather"
    /\ GatherComplete(tasks)
    /\ LET merged == MergeOutputs([agent_outputs |-> agent_outputs,
                                   all_scenarios |-> all_scenarios],
                                  GatherOutputs(tasks), config.max_scenarios_per_agent)
       IN  /\ agent_outputs' = merged.agent_outputs
           /\ all_scenarios' = merged.all_scenarios
    /\ round_log' = Append(round_log, tasks)
    /\ round_num' = NextRound(round_num)
    /\ pc' = "loop"
    /\ config' = ConfigAfterRound(config)
    /\ UNCHANGED <<agents, other, user_story, agent_input, tasks, response>>

\* gather raises what an awaitable raised; it passes through
\* _orchestrate_collaboration and generate_bdd_scenarios to the caller
GatherPropagate ==
    /\ pc = "gather"
    /\ GatherRaises(tasks)
    /\ LET out == RaiseToCaller(user_story, agent_outputs)
       IN  /\ pc' = out.pc
           /\ response' = out.response
    /\ UNCHANGED <<agents, other, config, user_story, round_num, agent_outputs, all_scenarios,
                   agent_input, tasks, round_log>>

\* the loop is over: _orchestrate_collaboration returns agent_outputs and
\* generate_bdd_scenarios builds and returns the response
Finish ==
    /\ pc = "loop"
    /\ round_num >= config.collaboration_rounds
    /\ response' = <<BuildResponse(user_story, agent_outputs)>>
    /\ pc' = "returned"
    /\ UNCHANGED <<agents, other, config, user_story, round_num, agent_outputs, all_scenarios,
                   agent_input, tasks, round_log>>

Next ==
    \/ Call
    \/ RoundBegin
    \/ \E i \in 1..Len(tasks) : TaskStart(i)
    \/ \E i \in 1..Len(tasks), text \in ReplyTexts : TransportReply(i, text)
    \/ \E i \in 1..Len(tasks) : TransportNull(i)
    \/ \E i \in 1..Len(tasks), e \in ErrorMessages : TransportFail(i, e)
    \/ \E i \in 1..Len(tasks) : TaskEscape(i)
    \/ GatherReturn
    \/ GatherPropagate
    \/ Finish

Spec == Init /\ [][Next]_vars

----------------------------------------------------------------------------
(* What the properties speak of *)

\* the configuration's max_scenarios_per_agent
Cap == config.max_scenarios_per_agent

\* the tasks of the rounds so far: the finished rounds and the current one
AllRounds == IF pc = "gather" \/ pc = "raised" THEN Append(round_log, tasks) ELSE round_log

\* the number of scenarios a reply text holds: its scenario-title lines
Generated(text) ==
    LET lines == Split(Strip(text), NL)
    IN  Len(SelectSeq(lines, LAMBDA raw :
            StartsWith(Lower(Strip(raw)), kw_cenario) /\ Contains(raw, Colon)))

\* lower-cased and without any white space
FullyNormalized(text) == SelectSeq(Lower(text), LAMBDA c : ~IsSpace(c))

\* lower-cased and without the space character
SpaceNormalized(text) == SelectSeq(Lower(text), LAMBDA c : c # SP)

\* the scenario has an entry with its normalized key in the list
Represented(scenario, list) ==
    \E i \in 1..Len(list) : SpaceNormalized(list[i]) = SpaceNormalized(scenario)

----------------------------------------------------------------------------
(* C1 *)

\* C1: a Response that analyze returns when generation succeeds holds exactly
\* min(cap, generated) scenarios, so no Response, in a round or in the final
\* per-role map, holds more than max_scenarios_per_agent scenarios.
C1_CapRespected ==
    /\ \A k \in 1..Len(AllRounds) : \A i \in 1..Len(AllRounds[k]) :
          LET t == AllRounds[k][i]
          IN  (t.state = "done" /\ t.reply[1].kind = "content")
                => Len(t.result[1].scenarios) = Min2(Cap, Generated(t.reply[1].text))
    /\ \A i \in 1..Len(agent_outputs) : Len(agent_outputs[i].value.scenarios) <= Cap
    /\ response # <<>> =>
          \A i \in 1..Len(response[1].agent_outputs) :
              Len(response[1].agent_outputs[i].value.scenarios) <= Cap

----------------------------------------------------------------------------
(* C2 *)

\* C2 as claimed: no two entries of consolidated_scenarios are identical once
\* lower-cased and stripped of all white space.
C2_NoWhitespaceDuplicates ==
    response # <<>> =>
        LET list == response[1].consolidated_scenarios
        IN  \A i, j \in 1..Len(list) :
                i # j => FullyNormalized(list[i]) # FullyNormalized(list[j])

\* C2 amended: no two entries of consolidated_scenarios are identical once
\* lower-cased and stripped of the space character (tabs and newlines stay).
C2_NoSpaceCaseDuplicates ==
    response # <<>> =>
        LET list == response[1].consolidated_scenarios
        IN  \A i, j \in 1..Len(list) :
                i # j => SpaceNormalized(list[i]) # SpaceNormalized(list[j])

\* a run returned a list from which consolidation dropped a duplicate of
\* another role and kept two entries
C2_Witness ==
    /\ response # <<>>
    /\ Len(response[1].consolidated_scenarios) >= 2
    /\ \E i, j \in 1..Len(response[1].agent_outputs) :
          /\ i # j
          /\ \E a \in 1..Len(response[1].agent_outputs[i].value.scenarios),
                b \in 1..Len(response[1].agent_outputs[j].value.scenarios) :
                /\ response[1].agent_outputs[i].value.scenarios[a]
                     # response[1].agent_outputs[j].value.scenarios[b]
                /\ SpaceNormalized(response[1].agent_outputs[i].value.scenarios[a])
                     = SpaceNormalized(response[1].agent_outputs[j].value.scenarios[b])

----------------------------------------------------------------------------
(* C3 *)

\* C3 as claimed: every scenario text a worker produced in any round is
\* represented in consolidated_scenarios.
C3_AllRoundsRepresented ==
    response # <<>> =>
        \A k \in 1..Len(round_log) : \A i \in 1..Len(round_log[k]) :
            LET scenarios == round_log[k][i].result[1].scenarios
            IN  \A n \in 1..Len(scenarios) :
                    Represented(scenarios[n], response[1].consolidated_scenarios)

\* C3 amended: every scenario text of the Responses in the final per-role map
\* (each role's last merged Response of the last round) is represented in
\* consolidated_scenarios, itself or by an earlier entry with the same key.
C3_FinalMapRepresented ==
    response # <<>> =>
        \A i \in 1..Len(response[1].agent_outputs) :
            LET scenarios == response[1].agent_outputs[i].value.scenarios
            IN  \A n \in 1..Len(scenarios) :
                    Represented(scenarios[n], response[1].consolidated_scenarios)

\* a run returned whose per-role map holds scenarios of the role of least
\* priority
C3_Witness ==
    /\ response # <<>>
    /\ DictHas(response[1].agent_outputs, TECH_LEAD)
    /\ DictGet(response[1].agent_outputs, TECH_LEAD).scenarios # <<>>
    /\ Len(response[1].consolidated_scenarios) >= 2

\* the elements of a sequence
Range(seq) == {seq[i] : i \in 1..Len(seq)}

\* the scenario texts of the Responses of rounds 1..n of `rounds`
TextsOfRounds(rounds, n) ==
    UNION {UNION {Range(rounds[k][i].result[1].scenarios) : i \in 1..Len(rounds[k])} :
              k \in 1..n}

\* the tasks of a round that have been started
Started(ts) == {i \in 1..Len(ts) : ts[i].call # <<>>}

\* the i-th task is the last of its role in the round
LastOfRole(ts, i) == \A j \in (i + 1)..Len(ts) : ts[j].role # ts[i].role

\* a Response's scenarios cut to the cap
Truncated(scenarios) == SubSeq(scenarios, 1, Min2(Cap, Len(scenarios)))

\* the capped scenarios of rounds 1..n, round by round, worker by worker
CappedOfRounds(rounds, n) ==
    Concat([k \in 1..n |->
        Concat([i \in 1..Len(rounds[k]) |-> Truncated(rounds[k][i].result[1].scenarios)])])

IsPrefix(a, b) == Len(a) <= Len(b) /\ SubSeq(b, 1, Len(a)) = a

----------------------------------------------------------------------------
(* C4 *)

\* C4: the previous_scenarios of every Request of round k holds only texts
\* produced in rounds 1..k-1 and is the same for all workers of round k.
C4_NoSameRoundLeak ==
    \A k \in 1..Len(AllRounds) :
        \A i \in Started(AllRounds[k]) :
            LET previous == AllRounds[k][i].call[1].previous_scenarios
            IN  /\ \A n \in 1..Len(previous) : previous[n] \in TextsOfRounds(AllRounds, k - 1)
                /\ \A j \in Started(AllRounds[k]) :
                      AllRounds[k][j].call[1].previous_scenarios = previous

\* in a later round a worker has returned a scenario while another worker,
\* whose Request holds earlier rounds' scenarios, is waiting for its transport
C4_Witness ==
    /\ pc = "gather"
    /\ round_num >= 1
    /\ \E i, j \in 1..Len(tasks) :
          /\ tasks[i].state = "done"
          /\ tasks[i].result[1].scenarios # <<>>
          /\ tasks[j].state = "awaiting"
          /\ tasks[j].call[1].previous_scenarios # <<>>
          /\ \E n \in 1..Len(tasks[i].result[1].scenarios) :
                \A m \in 1..Len(tasks[j].call[1].previous_scenarios) :
                    tasks[j].call[1].previous_scenarios[m] # tasks[i].result[1].scenarios[n]

----------------------------------------------------------------------------
(* C5 *)

\* the round's workers have all returned
AllReturned == \A i \in 1..Len(tasks) : tasks[i].state = "done"

\* C5: the per-role map and the running list change only when every worker of
\* the round has returned, a round begins only when every worker of the round
\* before has returned, and while a round runs the running list is what the
\* round began with.
C5_JoinBarrier ==
    /\ [](/\ \A k \in 1..Len(round_log) : \A i \in 1..Len(round_log[k]) :
                round_log[k][i].state = "done"
          /\ pc = "gather" =>
                /\ Len(round_log) = round_num
                /\ all_scenarios = agent_input[1].previous_scenarios)
    /\ [][/\ (agent_outputs' # agent_outputs \/ all_scenarios' # all_scenarios)
                => (pc = "gather" /\ AllReturned)
          /\ (pc # "gather" /\ pc' = "gather") => AllReturned
          /\ round_num' # round_num => AllReturned]_vars

\* in a later round one worker has returned scenarios and another is still
\* waiting, the accumulated state holding the rounds before
C5_Witness ==
    /\ pc = "gather"
    /\ round_num >= 1
    /\ all_scenarios # <<>>
    /\ agent_outputs # <<>>
    /\ \E i, j \in 1..Len(tasks) :
          /\ tasks[i].state = "done"
          /\ tasks[i].result[1].scenarios # <<>>
          /\ tasks[j].state = "awaiting"

----------------------------------------------------------------------------
(* C6 *)

\* C6: a worker whose transport call fails returns (it does not raise) a
\* Response with its own role, no scenario, one insight that tells the failure,
\* at least one concern and no suggestion.
C6_GracefulDegradation ==
    \A k \in 1..Len(AllRounds) : \A i \in 1..Len(AllRounds[k]) :
        LET t == AllRounds[k][i]
        IN  (t.reply # <<>> /\ t.reply[1].kind = "error") =>
                /\ t.state = "done"
                /\ t.result[1].agent_role = t.role
                /\ t.result[1].scenarios = <<>>
                /\ Len(t.result[1].concerns) >= 1
                /\ t.result[1].insights = <<ErrorInsightPrefix \o t.reply[1].text>>
                /\ t.result[1].suggestions = <<>>

\* a run returned in whose last round a worker's transport call failed
C6_Witness ==
    /\ pc = "returned"
    /\ round_log # <<>>
    /\ \E i \in 1..Len(round_log[Len(round_log)]) :
          round_log[Len(round_log)][i].reply[1].kind = "error"

----------------------------------------------------------------------------
(* C7 *)

\* C7: a worker that failed (recovered) or is slow does not keep the others
\* from starting and aborts neither the round nor the run: gather returns once
\* all have returned, the Responses of the others are merged as they were
\* returned, and the run returns a response.
C7_FailureDoesNotAbort ==
    /\ pc = "raised" => \E i \in 1..Len(tasks) : tasks[i].state = "raised"
    /\ pc = "gather" =>
          /\ \A i \in 1..Len(tasks) :
                (tasks[i].state = "created" /\ \A j \in 1..(i - 1) : tasks[j].state # "created")
                    => CanStart(tasks, i)
          /\ AllReturned => (GatherComplete(tasks) /\ ~GatherRaises(tasks))
    /\ (pc \in {"loop", "returned"} /\ round_log # <<>>) =>
          LET last == round_log[Len(round_log)]
          IN  \A j \in 1..Len(last) :
                LastOfRole(last, j) =>
                    /\ DictHas(agent_outputs, last[j].role)
                    /\ DictGet(agent_outputs, last[j].role) = last[j].result[1]
    /\ pc = "returned" => response # <<>>

\* a run returned in whose last round one worker failed and another worker's
\* scenarios are in the response
C7_Witness ==
    /\ pc = "returned"
    /\ round_log # <<>>
    /\ \E i, j \in 1..Len(round_log[Len(round_log)]) :
          LET last == round_log[Len(round_log)]
          IN  /\ last[i].reply[1].kind = "error"
              /\ last[j].reply[1].kind = "content"
              /\ last[j].role # last[i].role
              /\ last[j].result[1].scenarios # <<>>
              /\ DictGet(response[1].agent_outputs, last[j].role) = last[j].result[1]

----------------------------------------------------------------------------
(* C8 *)

\* C8: when a worker's analyze raises, generate_bdd_scenarios raises to the
\* caller and returns no response, partial or otherwise.
C8_FatalAborts ==
    /\ pc = "raised" => response = <<>>
    /\ response # <<>> => pc = "returned"
    /\ (\E i \in 1..Len(tasks) : tasks[i].state = "raised") =>
          /\ pc \in {"gather", "raised"}
          /\ response = <<>>
          /\ GatherRaises(tasks) /\ ~GatherComplete(tasks)

\* the run raised in a later round, after a worker of the round had returned
C8_Witness ==
    /\ pc = "raised"
    /\ agent_outputs # <<>>
    /\ \E i \in 1..Len(tasks) : tasks[i].state = "done"
    /\ response = <<>>

----------------------------------------------------------------------------
(* C9 *)

\* C9: after a run of one round or more the per-role map holds, for each role
\* that took part, the Response its worker returned in the last round (the
\* last of them when the role is listed twice), and nothing else.
C9_LastWriteWins ==
    /\ (pc \in {"loop", "returned"} /\ round_log # <<>>) =>
          LET last == round_log[Len(round_log)]
          IN  /\ {agent_outputs[i].key : i \in 1..Len(agent_outputs)}
                    = {last[j].role : j \in 1..Len(last)}
              /\ \A i, j \in 1..Len(agent_outputs) :
                    agent_outputs[i].key = agent_outputs[j].key => i = j
              /\ \A j \in 1..Len(last) :
                    LastOfRole(last, j) =>
                        DictGet(agent_outputs, last[j].role) = last[j].result[1]
    /\ response # <<>> => response[1].agent_outputs = agent_outputs

\* a run of two rounds or more returned, a role's Response of the first round
\* being another than the one in the map
C9_Witness ==
    /\ pc = "returned"
    /\ Len(round_log) >= 2
    /\ \E i \in 1..Len(round_log[1]) :
          /\ round_log[1][i].result[1].scenarios # <<>>
          /\ round_log[1][i].result[1]
                # DictGet(response[1].agent_outputs, round_log[1][i].role)

----------------------------------------------------------------------------
(* C10 *)

\* C10: the previous_scenarios of round k is the concatenation, round by round
\* and worker by worker, of the scenarios of rounds 1..k-1 cut to
\* max_scenarios_per_agent: empty in round 1, each round's list a prefix of
\* the next round's, no worker adding more than the cap in a round.
C10_PreviousScenarios ==
    /\ \A k \in 1..Len(AllRounds) : \A i \in Started(AllRounds[k]) :
          AllRounds[k][i].call[1].previous_scenarios = CappedOfRounds(AllRounds, k - 1)
    /\ \A k \in 1..Len(AllRounds) : \A i \in Started(AllRounds[k]) :
          /\ k = 1 => AllRounds[k][i].call[1].previous_scenarios = <<>>
          /\ k > 1 =>
                \A h \in Started(AllRounds[k - 1]) :
                    /\ IsPrefix(AllRounds[k - 1][h].call[1].previous_scenarios,
                                AllRounds[k][i].call[1].previous_scenarios)
                    /\ Len(AllRounds[k][i].call[1].previous_scenarios)
                         - Len(AllRounds[k - 1][h].call[1].previous_scenarios)
                            <= Cap * Len(AllRounds[k - 1])
    /\ pc = "gather" => agent_input[1].previous_scenarios = all_scenarios
    /\ all_scenarios = CappedOfRounds(round_log, Len(round_log))

\* a worker of the third round has its Request, the rounds before having
\* returned scenarios of which the cap cut some
C10_Witness ==
    /\ pc = "gather"
    /\ round_num = 2
    /\ \E i \in Started(tasks) : tasks[i].call[1].previous_scenarios # <<>>
    /\ \E k \in 1..Len(round_log) : \E i \in 1..Len(round_log[k]) :
          Len(round_log[k][i].result[1].scenarios) > Cap

----------------------------------------------------------------------------
(* C11 *)

\* C11: each worker of a round is given a Request of its own: no two workers
\* of a round hold the same AgentInput object, context dict or
\* previous_scenarios list (what one writes to it the other cannot see), and
\* no worker holds the orchestrator's running list.
C11_OwnRequest ==
    \A k \in 1..Len(AllRounds) : \A i, j \in 1..Len(AllRounds[k]) :
        /\ i # j =>
              /\ AllRounds[k][i].argument.agent_input # AllRounds[k][j].argument.agent_input
              /\ AllRounds[k][i].argument.context # AllRounds[k][j].argument.context
              /\ AllRounds[k][i].argument.previous_scenarios
                    # AllRounds[k][j].argument.previous_scenarios
        /\ AllRounds[k][i].argument.previous_scenarios # AllScenariosId

----------------------------------------------------------------------------
(* C12 *)

\* the tasks of a round whose worker has the role
TasksOfRole(ts, role) == {i \in 1..Len(ts) : ts[i].role = role}

\* C12: in every round each active role's worker is invoked exactly once and
\* returns exactly one Response, which is the one merged for the role.
C12_OncePerRole ==
    /\ \A k \in 1..Len(AllRounds) : \A role \in Range(ActiveAgents(config)) :
          Cardinality({i \in TasksOfRole(AllRounds[k], role) :
                          AllRounds[k][i].call # <<>>}) <= 1
    /\ \A k \in 1..Len(round_log) : \A role \in Range(ActiveAgents(config)) :
          /\ Cardinality({i \in TasksOfRole(round_log[k], role) :
                            round_log[k][i].call # <<>>}) = 1
          /\ Cardinality({i \in TasksOfRole(round_log[k], role) :
                            round_log[k][i].result # <<>>}) = 1
    /\ (pc = "loop" /\ round_log # <<>>) =>
          \A i \in 1..Len(round_log[Len(round_log)]) :
              LET t == round_log[Len(round_log)][i]
              IN  DictGet(agent_outputs, t.role) = t.result[1]

----------------------------------------------------------------------------
(* The end of a run on sample per-role maps: what generate_bdd_scenarios   *)
(* builds from the map that _orchestrate_collaboration returns             *)

\* a long Response holds MaxBulk scenarios and seven insights for each
MaxBulk == 6

\* "Cenário 1: X"
TitleX == <<"C","e","n","á","r","i","o"," ","1",":"," ","X">>

\* "Cenário 1: X\nCenário 1: X": the same scenario twice
ReplyTwice == Join(<<TitleX, TitleX>>, <<NL>>)

\* the Response of a long reply: MaxBulk scenarios, 7 * MaxBulk insights
BulkOutput(role) ==
    AgentOutput(role, [k \in 1..MaxBulk |-> TitleX],
                [k \in 1..(7 * MaxBulk) |-> <<"a">>], <<>>, <<>>)

\* the Responses a role's worker returns in the sample runs: _parse_response
\* of four replies, and the long one
SampleResponses ==
    [role \in AgentRole |->
        <<_parse_response(role, ReplyPlain), _parse_response(role, ReplyUpperTwo),
          _parse_response(role, ReplyTab), _parse_response(role, ReplyTwice),
          BulkOutput(role)>>]

\* the lists of distinct roles, in every order
RoleLists ==
    {keys \in UNION {[1..n -> AgentRole] : n \in 0..Cardinality(AgentRole)} :
        \A i, j \in 1..Len(keys) : keys[i] = keys[j] => i = j}

\* the outputs that gather returns in a round of the roles `keys`, each
\* worker returning one of its sample Responses
SampleOutputs(keys) ==
    {[i \in 1..Len(keys) |-> SampleResponses[keys[i]][choice[i]]] :
        choice \in [1..Len(keys) -> 1..Len(SampleResponses[PO])]}

\* the loop of _orchestrate_collaboration is over, its one round having
\* merged sample outputs of the enabled roles
OutputsInit ==
    /\ \E keys \in RoleLists : \E outputs \in SampleOutputs(keys) :
          /\ config = CollaborationConfig(keys, 1, MaxCap, TRUE, FALSE, FALSE)
          /\ LET merged == MergeOutputs([agent_outputs |-> <<>>, all_scenarios |-> <<>>],
                                        outputs, MaxCap)
             IN  /\ agent_outputs = merged.agent_outputs
                 /\ all_scenarios = merged.all_scenarios
    /\ user_story \in Stories
    /\ pc = "loop"
    /\ round_num = 1
    /\ agent_input = <<BuildAgentInput(user_story, config, 0, <<>>)>>
    /\ tasks = <<>>
    /\ response = <<>>
    /\ round_log = <<>>
    /\ agents = _initialize_agents
    /\ other = <<>>

OutputsNext == Finish

OutputsSpec == OutputsInit /\ [][OutputsNext]_vars

\* the permutations of 1..n
InsertionOrders(n) == {p \in [1..n -> 1..n] : \A i, j \in 1..n : p[i] = p[j] => i = j}

\* the map with its entries in another insertion order
Reordered(d, p) == [i \in 1..Len(d) |-> d[p[i]]]

\* the order of roles the consolidation is said to follow
ClaimedOrder == <<PO, QA, PM, TECH_LEAD>>

\* the place in ClaimedOrder of the first role whose Response holds the text
RankOf(outputs, scenario) ==
    CHOOSE k \in 1..Len(ClaimedOrder) :
        /\ DictHas(outputs, ClaimedOrder[k])
        /\ scenario \in Range(DictGet(outputs, ClaimedOrder[k]).scenarios)
        /\ \A h \in 1..(k - 1) :
              DictHas(outputs, ClaimedOrder[h]) =>
                  scenario \notin Range(DictGet(outputs, ClaimedOrder[h]).scenarios)

\* the roles' scenario lists, one after the other in ClaimedOrder
ConcatInOrder(outputs) ==
    Concat([k \in 1..Len(ClaimedOrder) |->
               IF DictHas(outputs, ClaimedOrder[k])
               THEN DictGet(outputs, ClaimedOrder[k]).scenarios ELSE <<>>])

RECURSIVE KeepFirst(_, _, _)
\* the entries among the first n of list whose key no earlier entry has
KeepFirst(list, keys, n) ==
    IF n = 0 THEN <<>>
    ELSE IF \E j \in 1..(n - 1) : keys[j] = keys[n]
         THEN KeepFirst(list, keys, n - 1)
         ELSE Append(KeepFirst(list, keys, n - 1), list[n])

\* the first occurrences of list, by normalized key
FirstOccurrences(list) ==
    KeepFirst(list, [i \in 1..Len(list) |-> SpaceNormalized(list[i])], Len(list))

\* the per-role map of one role whose Response holds the scenarios
SingleRoleMap(role, scenarios) ==
    <<[key |-> role, value |-> AgentOutput(role, scenarios, <<>>, <<>>, <<>>)]>>

----------------------------------------------------------------------------
(* C13 *)

\* C13: the consolidated list is the same for every insertion order of the
\* per-role map, and its entries come in the roles' fixed order PO, QA, PM,
\* TECH_LEAD.
C13_OrderIndependent ==
    response # <<>> =>
        LET out == response[1].consolidated_scenarios
        IN  /\ \A p \in InsertionOrders(Len(agent_outputs)) :
                  _consolidate_scenarios(Reordered(agent_outputs, p)) = out
            /\ \A i, j \in 1..Len(out) :
                  i < j => RankOf(agent_outputs, out[i]) <= RankOf(agent_outputs, out[j])

\* a run returned whose map holds QA's Response before PO's, the list
\* beginning with a scenario of PO and holding one that only QA has
C13_Witness ==
    /\ response # <<>>
    /\ Len(agent_outputs) >= 2
    /\ agent_outputs[1].key = QA
    /\ agent_outputs[2].key = PO
    /\ Len(response[1].consolidated_scenarios) >= 2
    /\ response[1].consolidated_scenarios[1] = agent_outputs[2].value.scenarios[1]
    /\ \E n \in 1..Len(response[1].consolidated_scenarios) :
          /\ RankOf(agent_outputs, response[1].consolidated_scenarios[n]) = 2

----------------------------------------------------------------------------
(* C14 *)

\* C14: the consolidated list is the roles' scenario lists, one after the
\* other in priority order, less every scenario whose normalized key an
\* earlier one has: the first occurrence stays, in its place, and a duplicate
\* is dropped without an error.
C14_FirstOccurrenceWins ==
    /\ response # <<>> =>
          response[1].consolidated_scenarios = FirstOccurrences(ConcatInOrder(agent_outputs))
    /\ pc = "returned" => response # <<>>

\* a run returned whose list misses a duplicate within a role and a duplicate
\* of another role
C14_Witness ==
    /\ response # <<>>
    /\ Len(response[1].consolidated_scenarios) >= 2
    /\ \E i \in 1..Len(agent_outputs) :
          /\ Len(agent_outputs[i].value.scenarios) = 2
          /\ agent_outputs[i].value.scenarios[1] = agent_outputs[i].value.scenarios[2]
    /\ \E i, j \in 1..Len(agent_outputs) :
          /\ i # j
          /\ agent_outputs[i].value.scenarios # <<>>
          /\ agent_outputs[j].value.scenarios # <<>>
          /\ agent_outputs[i].value.scenarios[1] # agent_outputs[j].value.scenarios[1]
          /\ SpaceNormalized(agent_outputs[i].value.scenarios[1])
                = SpaceNormalized(agent_outputs[j].value.scenarios[1])

----------------------------------------------------------------------------
(* C15 *)

\* C15: consolidating the consolidated list again, as the scenarios of one
\* role's Response, gives the same list: nothing more is dropped and the
\* order stays.
C15_Idempotent ==
    response # <<>> =>
        \A role \in AgentRole :
            _consolidate_scenarios(SingleRoleMap(role, response[1].consolidated_scenarios))
                = response[1].consolidated_scenarios

\* a run returned whose list holds three entries or more after duplicates
\* were dropped
C15_Witness ==
    /\ response # <<>>
    /\ Len(response[1].consolidated_scenarios) >= 3
    /\ Len(response[1].consolidated_scenarios) < Len(ConcatInOrder(agent_outputs))

----------------------------------------------------------------------------
(* C16 *)

\* C16: a run with no enabled role or with zero rounds does not raise: it
\* returns a response with an empty per-role map, no participant, no
\* consolidated scenario, total_scenarios 0, scenarios_per_agent 0 and
\* collaboration_score 0.
C16_EmptyRun ==
    (config.enabled_agents = <<>> \/ config.collaboration_rounds = 0) =>
        /\ pc # "raised"
        /\ agent_outputs = <<>>
        /\ pc = "returned" =>
              /\ response # <<>>
              /\ response[1].agent_outputs = <<>>
              /\ response[1].consolidated_scenarios = <<>>
              /\ response[1].collaboration_summary.participating_agents = <<>>
              /\ response[1].quality_metrics.agents_participated = 0
              /\ response[1].quality_metrics.total_scenarios = 0
              /\ response[1].quality_metrics.scenarios_per_agent.num = 0
              /\ response[1].quality_metrics.scenarios_per_agent.den # 0
              /\ response[1].quality_metrics.collaboration_score_tenths = 0

\* a run of one round or more with no enabled role returned, gather having
\* been awaited with no awaitable
C16_Witness ==
    /\ pc = "returned"
    /\ config.enabled_agents = <<>>
    /\ config.collaboration_rounds >= 1
    /\ Len(round_log) = config.collaboration_rounds
    /\ response # <<>>
    /\ response[1].quality_metrics.agents_participated = 0

----------------------------------------------------------------------------
(* C17 *)

\* the sum of the lengths of a list field over the Responses of a map
TotalLen(outputs, field) == SumSeq([i \in 1..Len(outputs) |-> Len(outputs[i].value[field])])

\* C17: collaboration_score is min(100, (total_scenarios * 10 +
\* total_insights * 5) / 10), here in tenths, and so between 0 and 100.
C17_ScoreBounded ==
    response # <<>> =>
        LET raw == TotalLen(agent_outputs, "scenarios") * 10
                     + TotalLen(agent_outputs, "insights") * 5
            score == response[1].quality_metrics.collaboration_score_tenths
        IN  /\ score = IF raw <= 100 * 10 THEN raw ELSE 100 * 10
            /\ 0 <= score
            /\ score <= 100 * 10

\* a run returned whose scenarios and insights weigh more than the score's
\* ceiling
C17_Witness ==
    /\ response # <<>>
    /\ TotalLen(agent_outputs, "scenarios") * 10
          + TotalLen(agent_outputs, "insights") * 5 > 100 * 10
    /\ response[1].quality_metrics.collaboration_score_tenths = 100 * 10

----------------------------------------------------------------------------
(* C18 *)

\* C18: total_scenarios, total_insights and total_concerns are the sums of the
\* list lengths over the Responses of the final per-role map, before
\* consolidation, agents_participated is the number of its roles, and
\* total_scenarios is no less than the length of the consolidated list.
C18_TotalsBeforeDedup ==
    response # <<>> =>
        LET m == response[1].quality_metrics
        IN  /\ m.total_scenarios = TotalLen(agent_outputs, "scenarios")
            /\ m.total_insights = TotalLen(agent_outputs, "insights")
            /\ m.total_concerns = TotalLen(agent_outputs, "concerns")
            /\ m.agents_participated
                  = Cardinality({agent_outputs[i].key : i \in 1..Len(agent_outputs)})
            /\ m.total_scenarios >= Len(response[1].consolidated_scenarios)

\* a run of two roles returned, one with the same scenario twice and one with
\* another scenario: total 3, consolidated 2, participants 2
C18_Witness ==
    /\ response # <<>>
    /\ Len(agent_outputs) = 2
    /\ Len(agent_outputs[1].value.scenarios) = 2
    /\ agent_outputs[1].value.scenarios[1] = agent_outputs[1].value.scenarios[2]
    /\ Len(agent_outputs[2].value.scenarios) = 1
    /\ response[1].quality_metrics.total_scenarios = 3
    /\ Len(response[1].consolidated_scenarios) = 2
    /\ response[1].quality_metrics.agents_participated = 2

----------------------------------------------------------------------------
(* C19 *)

\* C19: scenarios_per_agent is total_scenarios over the number of roles in
\* the map when there is one or more, and 0 when there is none; the divisor
\* is never 0.
C19_ScenariosPerAgent ==
    response # <<>> =>
        LET spa == response[1].quality_metrics.scenarios_per_agent
        IN  /\ spa.den # 0
            /\ Len(agent_outputs) > 0 =>
                  /\ spa.num = TotalLen(agent_outputs, "scenarios")
                  /\ spa.den = Len(agent_outputs)
            /\ Len(agent_outputs) = 0 => spa.num = 0

\* a run returned with no role in its map, scenarios_per_agent being 0
C19_Witness ==
    /\ response # <<>>
    /\ agent_outputs = <<>>
    /\ response[1].quality_metrics.agents_participated = 0
    /\ response[1].quality_metrics.scenarios_per_agent.num = 0

----------------------------------------------------------------------------
(* C20 *)

\* C20: every key of the per-role map, during the run and in the response, is
\* a role listed in enabled_agents, and the Response under a key bears that
\* role and is one that a worker of that role returned in the last round.
C20_KeysEnabled ==
    /\ \A i \in 1..Len(agent_outputs) :
          /\ agent_outputs[i].key \in Range(config.enabled_agents)
          /\ agent_outputs[i].value.agent_role = agent_outputs[i].key
          /\ round_log # <<>>
          /\ \E j \in TasksOfRole(round_log[Len(round_log)], agent_outputs[i].key) :
                round_log[Len(round_log)][j].result[1] = agent_outputs[i].value
    /\ response # <<>> =>
          /\ response[1].agent_outputs = agent_outputs
          /\ response[1].collaboration_summary.participating_agents
                = DictKeys(agent_outputs)

\* a run of three roles without PO returned, a worker having recovered from
\* a failure
C20_Witness ==
    /\ response # <<>>
    /\ Len(response[1].agent_outputs) = 3
    /\ ~DictHas(response[1].agent_outputs, PO)
    /\ \E i \in 1..Len(response[1].agent_outputs) :
          response[1].agent_outputs[i].value.concerns = <<FailureConcern>>

----------------------------------------------------------------------------
(* C21 *)

\* the first n entries of a list field of each role's Response, the roles
\* taken in ClaimedOrder
FirstOfEachInOrder(outputs, field, n) ==
    Concat([k \in 1..Len(ClaimedOrder) |->
               IF DictHas(outputs, ClaimedOrder[k])
               THEN SubSeq(DictGet(outputs, ClaimedOrder[k])[field], 1,
                           Min2(n, Len(DictGet(outputs, ClaimedOrder[k])[field])))
               ELSE <<>>])

\* C21: key_insights is the first 2 insights of each participating role and
\* main_concerns the first concern of each, the roles taken in the order PO,
\* QA, PM, TECH_LEAD whatever the order of enabled_agents.
C21_SummaryPriorityOrder ==
    response # <<>> =>
        /\ response[1].collaboration_summary.key_insights
              = FirstOfEachInOrder(response[1].agent_outputs, "insights", 2)
        /\ response[1].collaboration_summary.main_concerns
              = FirstOfEachInOrder(response[1].agent_outputs, "concerns", 1)

----------------------------------------------------------------------------
(* C22 *)

\* C22: the context of every Request holds a numeric temperature, the round
\* index (1 in the first round, one more in each round), the number of rounds,
\* the cap and the two flags of the configuration.
C22_RequestContext ==
    (pc = "gather" /\ agent_input # <<>>) =>
        LET context == agent_input[1].context
        IN  /\ "temperature" \in DOMAIN context
            /\ context.temperature \in Nat
            /\ context.round = round_num + 1
            /\ context.round = Len(round_log) + 1
            /\ context.round \in 1..config.collaboration_rounds
            /\ context.total_rounds = config.collaboration_rounds
            /\ context.max_scenarios_per_agent = config.max_scenarios_per_agent
            /\ context.include_negative = config.include_negative
            /\ context.include_edge_cases = config.include_edge_cases

----------------------------------------------------------------------------
(* C23 *)
(* A third specification: analyze of one worker, awaited by a caller with any
   Request. The context holds any of the keys analyze and _create_user_prompt
   read, each with any value of its range. *)

\* the temperatures of the model, in tenths: 0..MaxTemperatureTenths
MaxTemperatureTenths == 4
\* the caps a context holds: 0..MaxContextCap
MaxContextCap == 4

\* an Optional value: <<>> for a key that is absent, <<v>> for the value v
Optional(S) == {<<>>} \cup {<<v>> : v \in S}

\* the dict with the key when the value is there
DictItem(key, value) == IF value = <<>> THEN <<>> ELSE key :> value[1]

\* the context dict of a Request that holds the keys that are given
ContextOf(temperature, cap, negative, edge) ==
    DictItem("temperature", temperature) @@ DictItem("max_scenarios_per_agent", cap)
        @@ DictItem("include_negative", negative) @@ DictItem("include_edge_cases", edge)

WorkerContexts ==
    {ContextOf(temperature, cap, negative, edge) :
        temperature \in Optional(0..MaxTemperatureTenths),
        cap \in Optional(0..MaxContextCap),
        negative \in Optional(BOOLEAN), edge \in Optional(BOOLEAN)}

\* the Requests a worker is called with
WorkerRequests ==
    {AgentInput(story, context, <<>>) : story \in Stories, context \in WorkerContexts}

\* a caller awaits agent.analyze(request) of the worker of one role
WorkerInit ==
    /\ \E role \in AgentRole :
          config = CollaborationConfig(<<role>>, 1, MaxCap, TRUE, FALSE, FALSE)
    /\ user_story \in Stories
    /\ pc = "gather"
    /\ round_num = 0
    /\ agent_outputs = <<>>
    /\ all_scenarios = <<>>
    /\ \E request \in WorkerRequests :
          /\ request.user_story = user_story
          /\ agent_input = <<request>>
    /\ tasks = NewTasks(config, 0)
    /\ response = <<>>
    /\ round_log = <<>>
    /\ agents = _initialize_agents
    /\ other = <<>>

WorkerNext ==
    \/ \E i \in 1..Len(tasks) : TaskStart(i)
    \/ \E i \in 1..Len(tasks), text \in ReplyTexts : TransportReply(i, text)
    \/ \E i \in 1..Len(tasks) : TransportNull(i)
    \/ \E i \in 1..Len(tasks), e \in ErrorMessages : TransportFail(i, e)
    \/ \E i \in 1..Len(tasks) : TaskEscape(i)

WorkerSpec == WorkerInit /\ [][WorkerNext]_vars

\* the value the call must carry for a key: the context's when the key is
\* there, the default otherwise
ContextOr(context, key, default) ==
    IF key \in DOMAIN context THEN context[key] ELSE default

\* C23: the generation call of a worker carries the temperature of
\* request.context when the key is present and 0.3 when it is absent; the cap
\* of the prompt falls back to 3 and the two flags to false.
C23_ContextDefaults ==
    \A i \in 1..Len(tasks) :
        tasks[i].call # <<>> =>
            LET call == tasks[i].call[1]
                context == agent_input[1].context
            IN  /\ call.temperature = ContextOr(context, "temperature", 3)
                /\ call.max_scenarios = ContextOr(context, "max_scenarios_per_agent", 3)
                /\ call.include_negative = ContextOr(context, "include_negative", FALSE)
                /\ call.include_edge_cases = ContextOr(context, "include_edge_cases", FALSE)

\* a call made from a context that holds temperature 0 and a true
\* include_negative, and neither a cap nor include_edge_cases
C23_Witness ==
    /\ tasks # <<>>
    /\ tasks[1].call # <<>>
    /\ DOMAIN agent_input[1].context = {"temperature", "include_negative"}
    /\ agent_input[1].context.temperature = 0
    /\ agent_input[1].context.include_negative
    /\ tasks[1].call[1].temperature = 0
    /\ tasks[1].call[1].max_scenarios = 3
    /\ tasks[1].state = "done"

----------------------------------------------------------------------------
(* C24 *)
(* The run under fairness: the event loop runs every step of the run that
   can be taken, and the transport answers every call that awaits it. *)

\* the i-th awaitable of the round takes its first step
StartOf(i) == i \in 1..Len(tasks) /\ TaskStart(i)

\* "await self.client.chat.completions.create(...)" of the i-th awaitable
\* ends: with a text, with no content, or with an Exception
TransportAnswer(i) ==
    /\ i \in 1..Len(tasks)
    /\ \/ \E text \in ReplyTexts : TransportReply(i, text)
       \/ TransportNull(i)
       \/ \E e \in ErrorMessages : TransportFail(i, e)

\* the step of Finish as far as pc shows it: the loop is over and
\* generate_bdd_scenarios returns. Of the steps of Next only Finish takes pc
\* from "loop" to "returned", so fairness of this step is fairness of Finish
FinishReturns ==
    /\ pc = "loop"
    /\ round_num >= config.collaboration_rounds
    /\ pc' = "returned"

LiveSpec ==
    /\ Spec
    /\ WF_vars(Call)
    /\ WF_vars(RoundBegin)
    /\ \A i \in 1..MaxCalls : WF_vars(StartOf(i)) /\ WF_vars(TransportAnswer(i))
    /\ WF_vars(GatherReturn)
    /\ WF_vars(GatherPropagate)
    /\ WF_pc(FinishReturns)

\* no worker invocation of the current round has raised
NoInvocationRaises == \A i \in 1..Len(tasks) : tasks[i].state # "raised"

\* the run went through the rounds 1..R, each with one returned invocation
\* for each active worker, and built its result from their outcome
ExactRounds ==
    /\ Len(round_log) = config.collaboration_rounds
    /\ \A k \in 1..Len(round_log) :
          /\ Len(round_log[k]) = Len(ActiveAgents(config))
          /\ \A i \in 1..Len(round_log[k]) :
                /\ round_log[k][i].state = "done"
                /\ round_log[k][i].call[1].context.round = k
                /\ round_log[k][i].role = ActiveAgents(config)[i]
    /\ response # <<>>
    /\ response[1].agent_outputs = agent_outputs
    /\ response[1].consolidated_scenarios = _consolidate_scenarios(agent_outputs)
    /\ response[1].quality_metrics = _calculate_quality_metrics(agent_outputs)
    /\ response[1].collaboration_summary = _create_collaboration_summary(agent_outputs)

\* C24: when every worker invocation returns, a run of R rounds and N active
\* workers eventually returns a result, after exactly the rounds 1..R in
\* order, R*N invocations, then consolidation, metrics and summary.
C24_RunReturns == []NoInvocationRaises => <>(pc = "returned" /\ ExactRounds)

\* a returned run of 2 rounds of 2 workers: 4 invocations
C24_Witness ==
    /\ pc = "returned"
    /\ config.collaboration_rounds = 2
    /\ Len(ActiveAgents(config)) = 2
    /\ Len(round_log) = 2
    /\ Len(round_log[1]) + Len(round_log[2]) = 4
    /\ ExactRounds

----------------------------------------------------------------------------
(* C25 *)
(* A fourth specification: two calls of generate_bdd_scenarios on the one
   orchestrator, on one event loop. One call runs at a time; the other is
   suspended at an await (or not yet started, or over). The variables hold
   the frame of the running call, `other` the frame of the suspended one. *)

\* the runs of the two calls have 1..MaxRunRounds rounds
MaxRunRounds == 2

\* the locals of the running call of generate_bdd_scenarios and of the
\* _orchestrate_collaboration it awaits
CurrentFrame ==
    [config |-> config, user_story |-> user_story, pc |-> pc, round_num |-> round_num,
     agent_outputs |-> agent_outputs, all_scenarios |-> all_scenarios,
     agent_input |-> agent_input, tasks |-> tasks, response |-> response,
     round_log |-> round_log]

\* the frame of a call that has not started
NewFrame(cfg, story) ==
    [config |-> cfg, user_story |-> story, pc |-> "idle", round_num |-> 0,
     agent_outputs |-> <<>>, all_scenarios |-> <<>>, agent_input |-> <<>>,
     tasks |-> <<>>, response |-> <<>>, round_log |-> <<>>]

\* an orchestrator that keeps agent_outputs and all_scenarios as attributes
\* of self: the call that resumes finds what the other call left there
ResumeSharedAccumulators(frame, current) ==
    [frame EXCEPT !.agent_outputs = current.agent_outputs,
                  !.all_scenarios = current.all_scenarios]

\* what a call finds in its locals when the event loop resumes it: they are
\* locals of its own coroutine frames (orchestrator.py:122-123), so what it
\* left there
Resume(frame, current) == frame

\* the event loop leaves the running call at an await (or before its first
\* step, or after its last) and resumes the other one
Switch ==
    /\ other # <<>>
    /\ pc \in {"idle", "gather", "returned", "raised"}
    /\ LET frame == Resume(other[1], CurrentFrame)
       IN  /\ config' = frame.config
           /\ user_story' = frame.user_story
           /\ pc' = frame.pc
           /\ round_num' = frame.round_num
           /\ agent_outputs' = frame.agent_outputs
           /\ all_scenarios' = frame.all_scenarios
           /\ agent_input' = frame.agent_input
           /\ tasks' = frame.tasks
           /\ response' = frame.response
           /\ round_log' = frame.round_log
    /\ other' = <<CurrentFrame>>
    /\ UNCHANGED agents

\* the configurations of a call with the one worker of a role
RunConfigs(role) ==
    {CollaborationConfig(<<role>>, rounds, 1, cross, FALSE, FALSE) :
        rounds \in 1..MaxRunRounds, cross \in BOOLEAN}

InterleavedInit ==
    /\ config \in RunConfigs(PO)
    /\ user_story \in Stories
    /\ pc = "idle"
    /\ round_num = 0
    /\ agent_outputs = <<>>
    /\ all_scenarios = <<>>
    /\ agent_input = <<>>
    /\ tasks = <<>>
    /\ response = <<>>
    /\ round_log = <<>>
    /\ agents = _initialize_agents
    /\ \E role \in {PO, QA} : \E cfg \in RunConfigs(role), story \in Stories :
          other = <<NewFrame(cfg, story)>>

InterleavedNext ==
    \/ Call
    \/ RoundBegin
    \/ \E i \in 1..Len(tasks) : TaskStart(i)
    \/ \E i \in 1..Len(tasks), text \in ReplyTexts : TransportReply(i, text)
    \/ GatherReturn
    \/ Finish
    \/ Switch

InterleavedSpec == InterleavedInit /\ [][InterleavedNext]_vars

\* the Responses the finished rounds of a call have returned, in order
OutputsOfLog(log) == Concat([k \in 1..Len(log) |-> GatherOutputs(log[k])])

\* the per-role map and the scenario list that a call's own rounds give
OwnAccumulators(frame) ==
    MergeOutputs([agent_outputs |-> <<>>, all_scenarios |-> <<>>],
                 OutputsOfLog(frame.round_log), frame.config.max_scenarios_per_agent)

\* the call of the frame holds, passes on and returns what its own rounds gave
RunIsolated(frame) ==
    /\ frame.agent_outputs = OwnAccumulators(frame).agent_outputs
    /\ frame.all_scenarios = OwnAccumulators(frame).all_scenarios
    /\ frame.pc = "gather" =>
          frame.agent_input[1].previous_scenarios = OwnAccumulators(frame).all_scenarios
    /\ frame.pc = "returned" =>
          /\ frame.response # <<>>
          /\ frame.response[1] =
                BuildResponse(frame.user_story, OwnAccumulators(frame).agent_outputs)

\* C25: the orchestrator keeps no state between runs: the result of a run
\* depends only on its own input, configuration and worker replies, and two
\* runs interleaved on one orchestrator do not see each other's per-role map
\* or running scenario list.
C25_RunsIsolated ==
    /\ RunIsolated(CurrentFrame)
    /\ other # <<>> => RunIsolated(other[1])

\* the two calls are both awaiting a later round, each with a per-role map
\* of its own from its first round
C25_Witness ==
    /\ other # <<>>
    /\ pc = "gather"
    /\ other[1].pc = "gather"
    /\ round_log # <<>>
    /\ other[1].round_log # <<>>
    /\ agent_outputs # <<>>
    /\ other[1].agent_outputs # <<>>
    /\ agent_outputs # other[1].agent_outputs
    /\ all_scenarios # other[1].all_scenarios

----------------------------------------------------------------------------
(* C27 *)

\* two configurations that differ at most in include_cross_validation
SameButCross(c1, c2) ==
    [c1 EXCEPT !.include_cross_validation = TRUE]
        = [c2 EXCEPT !.include_cross_validation = TRUE]

\* what the transport answered to each invocation of each finished round
RepliesOf(frame) ==
    [k \in 1..Len(frame.round_log) |->
        [i \in 1..Len(frame.round_log[k]) |-> frame.round_log[k][i].reply]]

\* what each invocation of each finished round sent to the transport
CallsOf(frame) ==
    [k \in 1..Len(frame.round_log) |->
        [i \in 1..Len(frame.round_log[k]) |-> frame.round_log[k][i].call]]

\* two returned runs of the same input and the same replies whose
\* configurations differ at most in the flag
SameRunsButCross(f1, f2) ==
    /\ f1.pc = "returned"
    /\ f2.pc = "returned"
    /\ f1.user_story = f2.user_story
    /\ SameButCross(f1.config, f2.config)
    /\ RepliesOf(f1) = RepliesOf(f2)

\* C27: two runs whose configurations differ only in
\* include_cross_validation, given the same input and the same worker
\* replies, build the same Requests and return the same per-role map,
\* consolidated scenarios, summary and metrics.
C27_CrossValidationInert ==
    (other # <<>> /\ SameRunsButCross(CurrentFrame, other[1])) =>
        /\ CallsOf(CurrentFrame) = CallsOf(other[1])
        /\ response[1].agent_outputs = other[1].response[1].agent_outputs
        /\ response[1].consolidated_scenarios = other[1].response[1].consolidated_scenarios
        /\ response[1].collaboration_summary = other[1].response[1].collaboration_summary
        /\ response[1].quality_metrics = other[1].response[1].quality_metrics

\* two returned runs of 2 rounds, one with the flag and one without, with
\* the same replies
C27_Witness ==
    /\ other # <<>>
    /\ SameRunsButCross(CurrentFrame, other[1])
    /\ config.include_cross_validation # other[1].config.include_cross_validation
    /\ Len(round_log) = 2
    /\ response[1].agent_outputs # <<>>
    /\ response[1] = other[1].response[1]

----------------------------------------------------------------------------
(* C26 *)

\* the i-th invocation of analyze of round k when it has returned, as an
\* Optional
InvocationAt(k, i) ==
    IF i \in 1..Len(AllRounds[k]) /\ AllRounds[k][i].state = "done"
    THEN <<AllRounds[k][i]>> ELSE <<>>

\* invocations of one worker with the same Request and the same transport
\* reply returned the same Response, in whatever round and beside whatever
\* other invocation they ran
SameInSameOut ==
    \A k1 \in 1..Len(AllRounds), k2 \in 1..Len(AllRounds), i1 \in 1..MaxCalls, i2 \in 1..MaxCalls :
        (InvocationAt(k1, i1) # <<>> /\ InvocationAt(k2, i2) # <<>>) =>
            LET t1 == InvocationAt(k1, i1)[1]
                t2 == InvocationAt(k2, i2)[1]
            IN  (t1.role = t2.role /\ t1.reply = t2.reply
                    /\ t1.call[1].user_story = t2.call[1].user_story) =>
                    /\ t1.result = t2.result
                    /\ t1.result[1].agent_role = t1.role

\* C26: analyze changes nothing in the worker (role, client, model), so the
\* same worker is reused in every round and invoked concurrently, and the
\* Response of an invocation depends only on its own Request and its own
\* transport reply.
C26_WorkerStateless == [][agents' = agents]_vars /\ []SameInSameOut

\* the worker of one role has run twice at once in a round and again in a
\* later round, with different replies, and is as __init__ left it
C26_Witness ==
    /\ config.enabled_agents = <<PO, PO>>
    /\ Len(round_log) = 1
    /\ pc = "gather"
    /\ round_log[1][1].result # round_log[1][2].result
    /\ tasks[1].state = "done"
    /\ tasks[2].state = "awaiting"
    /\ tasks[1].result = round_log[1][2].result
    /\ agents[PO] = BaseAgent(PO, DefaultModel)

----------------------------------------------------------------------------
(* C28 *)
(* A fifth specification: generate_bdd_scenarios with a configuration of no
   round, called with inputs of one to MaxStoryLines lines whose lengths lie
   around the maximum length of a feature name. *)

MaxStoryLines == 3

\* the character c, n times
Repeat(c, n) == [i \in 1..n |-> c]

\* the lengths of the lines of an input
LineLengths == {0, 1, MaxNameLen - 1, MaxNameLen, MaxNameLen + 1}

\* the lines of the inputs: letters, and a line that ends in a blank
StoryLines == {Repeat("a", n) : n \in LineLengths} \cup {<<"a", SP>>}

\* what an input has before and after its lines
StoryPads == {<<>>, <<NL, SP>>, <<TAB>>}

SampleStories ==
    {before \o Join(lines, <<NL>>) \o after :
        lines \in UNION {[1..n -> StoryLines] : n \in 1..MaxStoryLines},
        before \in StoryPads, after \in StoryPads}

StoriesInit ==
    /\ config = CollaborationConfig(<<>>, 0, MaxCap, TRUE, FALSE, FALSE)
    /\ user_story \in SampleStories
    /\ pc = "idle"
    /\ round_num = 0
    /\ agent_outputs = <<>>
    /\ all_scenarios = <<>>
    /\ agent_input = <<>>
    /\ tasks = <<>>
    /\ response = <<>>
    /\ round_log = <<>>
    /\ agents = _initialize_agents
    /\ other = <<>>

StoriesNext == Call \/ Finish

StoriesSpec == StoriesInit /\ [][StoriesNext]_vars

\* the number of lines of a text: one more than its line feeds
LineCount(s) == Len(SelectSeq(s, LAMBDA c : c = NL)) + 1

\* a text up to its first line feed
FirstLine(s) ==
    IF \E i \in 1..Len(s) : s[i] = NL
    THEN SubSeq(s, 1, (CHOOSE i \in 1..Len(s) :
                            s[i] = NL /\ \A j \in 1..(i - 1) : s[j] # NL) - 1)
    ELSE s

\* C28: when the stripped input has fewer than 3 lines the feature name is
\* its first line, cut to 50 characters and followed by "..." when the line
\* is longer than 50 and unchanged otherwise; with 3 lines or more the name
\* is the placeholder; the description is the stripped input in both cases.
C28_FeatureLabel ==
    response # <<>> =>
        LET stripped == Strip(user_story)
            first == FirstLine(stripped)
            name == response[1].feature_name
        IN  /\ response[1].feature_description = stripped
            /\ LineCount(stripped) >= 3 => name = PlaceholderName
            /\ (LineCount(stripped) < 3 /\ Len(first) > 50) =>
                    name = SubSeq(first, 1, 50) \o <<".", ".", ".">>
            /\ (LineCount(stripped) < 3 /\ Len(first) <= 50) => name = first

\* an input of two lines, the first of 51 characters, after white space:
\* the name is 50 characters and "..."
C28_Witness ==
    /\ response # <<>>
    /\ user_story # Strip(user_story)
    /\ LineCount(Strip(user_story)) = 2
    /\ Len(FirstLine(Strip(user_story))) = 51
    /\ Len(response[1].feature_name) = 53
    /\ response[1].feature_description = Strip(user_story)

----------------------------------------------------------------------------
(* C29 *)
(* A sixth specification: one round of one worker whose transport answers
   with any text of up to MaxTextLines lines, each line of one of the kinds
   the parser tells apart. *)

MaxTextLines == 3

\* "Dado y"
LineStep == <<"D","a","d","o"," ","y">>
\* "Insights:"
LineInsights == <<"I","n","s","i","g","h","t","s",":">>
\* "Preocupações:"
LineConcerns == <<"P","r","e","o","c","u","p","a","ç","õ","e","s",":">>
\* "Sugestões:"
LineSuggestions == <<"S","u","g","e","s","t","õ","e","s",":">>
\* "- a"
LineDash == <<"-"," ","a">>
\* "  * b "
LineStar == <<" "," ","*"," ","b"," ">>
\* the line of U+2022, a blank and "c"
LineBullet == <<BULLET," ","c">>
\* "- concern"
LineDashConcern == <<"-"," ","c","o","n","c","e","r","n">>
\* "texto"
LinePlain == <<"t","e","x","t","o">>

\* the lines of a reply: a scenario title, a step, the three subsection
\* headers, bulleted lines with each marker, a bulleted line whose text holds
\* a header's word, a line of none of these kinds and the empty line
ParserLines ==
    {TitleX, LineStep, LineInsights, LineConcerns, LineSuggestions, LineDash, LineStar,
     LineBullet, LineDashConcern, LinePlain, <<>>}

ParserTexts ==
    {Join(lines, <<NL>>) :
        lines \in UNION {[1..n -> ParserLines] : n \in 0..MaxTextLines}}

ParserInit ==
    /\ config = CollaborationConfig(<<PO>>, 1, MaxCap, TRUE, FALSE, FALSE)
    /\ user_story \in Stories
    /\ pc = "idle"
    /\ round_num = 0
    /\ agent_outputs = <<>>
    /\ all_scenarios = <<>>
    /\ agent_input = <<>>
    /\ tasks = <<>>
    /\ response = <<>>
    /\ round_log = <<>>
    /\ agents = _initialize_agents
    /\ other = <<>>

ParserNext ==
    \/ Call
    \/ RoundBegin
    \/ \E i \in 1..Len(tasks) : TaskStart(i)
    \/ \E i \in 1..Len(tasks), text \in ParserTexts : TransportReply(i, text)

ParserSpec == ParserInit /\ [][ParserNext]_vars

\* the stripped, lower-cased lines of a text
LowerLines(text) ==
    LET lines == Split(text, NL)
    IN  [k \in 1..Len(lines) |-> Lower(Strip(lines[k]))]

\* no line of the text holds one of the words
NoLineHolds(text, words) ==
    \A k \in 1..Len(LowerLines(text)) :
        \A word \in words : ~Contains(LowerLines(text)[k], word)

\* a list of texts
IsList(v) == DOMAIN v = 1..Len(v)

\* C29: for every sequence of lines _parse_response returns a Response (the
\* worker's role and four lists), and a section that is missing from the text
\* yields an empty list for its field.
C29_ParserTolerant ==
    \A i \in 1..Len(tasks) :
        (tasks[i].state = "done" /\ tasks[i].reply[1].kind = "content") =>
            LET text == tasks[i].reply[1].text
                output == tasks[i].result[1]
            IN  /\ DOMAIN output =
                      {"agent_role", "scenarios", "insights", "concerns", "suggestions"}
                /\ output.agent_role = tasks[i].role
                /\ IsList(output.scenarios) /\ IsList(output.insights)
                /\ IsList(output.concerns) /\ IsList(output.suggestions)
                /\ NoLineHolds(text, {kw_cenario}) => output.scenarios = <<>>
                /\ NoLineHolds(text, {kw_insight}) => output.insights = <<>>
                /\ NoLineHolds(text, {kw_preocupa, kw_concern}) => output.concerns = <<>>
                /\ NoLineHolds(text, {kw_sugest}) => output.suggestions = <<>>

\* a reply with a concerns section and no other: one concern, and three
\* empty lists
C29_Witness ==
    /\ tasks # <<>>
    /\ tasks[1].state = "done"
    /\ tasks[1].reply[1].text = Join(<<LineConcerns, LineDash, LinePlain>>, <<NL>>)
    /\ tasks[1].result[1].concerns = << <<"a">> >>
    /\ tasks[1].result[1].scenarios = <<>>
    /\ tasks[1].result[1].insights = <<>>
    /\ tasks[1].result[1].suggestions = <<>>

----------------------------------------------------------------------------
(* C30 *)

\* the subsection a header line names, "None" for a line that is no header
HeaderOf(low) ==
    IF Contains(low, kw_insight) THEN "insights"
    ELSE IF Contains(low, kw_preocupa) \/ Contains(low, kw_concern) THEN "concerns"
    ELSE IF Contains(low, kw_sugest) THEN "suggestions"
    ELSE "None"

\* one line read by structure: a bulleted line goes, without its marker, to
\* the list of the subsection seen last, whatever its words; a line that is
\* not bulleted, no scenario title and no step names a subsection when it
\* holds a header's word
BulletLine(st, raw) ==
    LET line == Strip(raw)
        low == Lower(line)
    IN  IF line = <<>> THEN st
        ELSE IF StartsWithAny(line, BulletPrefixes) THEN
            IF st.section = "None" THEN st
            ELSE [st EXCEPT ![st.section] = Append(@, Strip(PySliceFrom(line, 2)))]
        ELSE IF StartsWith(low, kw_cenario) /\ Contains(line, Colon) THEN st
        ELSE IF StartsWithAny(low, StepPrefixes) THEN st
        ELSE IF HeaderOf(low) # "None" THEN [st EXCEPT !.section = HeaderOf(low)]
        ELSE st

RECURSIVE BulletLines(_, _)
BulletLines(st, lines) ==
    IF lines = <<>> THEN st ELSE BulletLines(BulletLine(st, Head(lines)), Tail(lines))

\* the three lists of a text read by structure
BulletsByStructure(text) ==
    BulletLines([insights |-> <<>>, concerns |-> <<>>, suggestions |-> <<>>,
                 section |-> "None"],
                Split(Strip(text), NL))

\* C30: every bulleted line ("- ", "* " or the U+2022 marker) that follows a
\* labeled subsection header is appended, without its marker, to the list of
\* the subsection seen last, in the order of the text, whatever words the
\* bullet's text contains.
C30_BulletsByStructure ==
    \A i \in 1..Len(tasks) :
        (tasks[i].state = "done" /\ tasks[i].reply[1].kind = "content") =>
            LET expected == BulletsByStructure(tasks[i].reply[1].text)
                output == tasks[i].result[1]
            IN  /\ output.insights = expected.insights
                /\ output.concerns = expected.concerns
                /\ output.suggestions = expected.suggestions

----------------------------------------------------------------------------
(* C31 *)

\* the stripped lines of a text
StrippedLines(text) ==
    LET lines == Split(Strip(text), NL)
    IN  [k \in 1..Len(lines) |-> Strip(lines[k])]

\* a scenario-title line: it starts with "cenário" in any case and holds ":"
IsTitle(line) == StartsWith(Lower(line), kw_cenario) /\ Contains(line, Colon)

\* a step line
IsStep(line) == ~IsTitle(line) /\ StartsWithAny(Lower(line), StepPrefixes)

\* a line that takes the parser to a subsection
IsHeader(line) == ~IsTitle(line) /\ ~IsStep(line) /\ HeaderOf(Lower(line)) # "None"

\* the positions of the title lines, in order
TitlePositions(lines) ==
    SelectSeq([k \in 1..Len(lines) |-> k], LAMBDA k : IsTitle(lines[k]))

\* the step lines that belong to the title at position k: those after it with
\* no title and no subsection header in between
StepsOfTitle(lines, k) ==
    LET after == SelectSeq([j \in 1..Len(lines) |-> j],
                    LAMBDA j : /\ j > k
                               /\ IsStep(lines[j])
                               /\ \A m \in (k + 1)..(j - 1) :
                                     ~IsTitle(lines[m]) /\ ~IsHeader(lines[m]))
    IN  [n \in 1..Len(after) |-> lines[after[n]]]

\* C31: _parse_response returns one scenario for each scenario-title line of
\* the text; each is its title line followed by exactly the step lines seen
\* in the scenario section: steps before the first title or after a
\* subsection header are dropped, a title after a header starts a scenario.
C31_ScenariosByTitle ==
    \A i \in 1..Len(tasks) :
        (tasks[i].state = "done" /\ tasks[i].reply[1].kind = "content") =>
            LET lines == StrippedLines(tasks[i].reply[1].text)
                titles == TitlePositions(lines)
                scenarios == tasks[i].result[1].scenarios
            IN  /\ Len(scenarios) = Len(titles)
                /\ \A n \in 1..Len(titles) :
                      StrippedLines(scenarios[n])
                          = <<lines[titles[n]]>> \o StepsOfTitle(lines, titles[n])

\* the reply is a title, a subsection header and a step line: one scenario,
\* the title alone
C31_Witness ==
    /\ tasks # <<>>
    /\ tasks[1].state = "done"
    /\ tasks[1].reply[1].text = Join(<<TitleX, LineInsights, LineStep>>, <<NL>>)
    /\ tasks[1].result[1].scenarios = <<TitleX>>

----------------------------------------------------------------------------
(* C32 *)
(* A seventh specification: runs of two rounds whose transport numbers its
   replies: the k-th reply to arrive in a round is the scenario "Cenário k",
   so that the texts show the order in which the workers completed. *)

\* the runs have up to MaxGatherWorkers workers
MaxGatherWorkers == 3

\* "Cenário k: X\nDado y"
CompletionText(k) ==
    <<"C","e","n","á","r","i","o"," ",ToString(k),":"," ","X","\n","D","a","d","o"," ","y">>

\* the awaitables of the round that have returned
NumDone(ts) == Cardinality({i \in 1..Len(ts) : ts[i].state = "done"})

\* the lists of enabled_agents: the first n roles of the priority order, and
\* the same backwards
GatherChoices ==
    {SubSeq(_agents, 1, n) : n \in 2..MaxGatherWorkers}
        \cup {[i \in 1..n |-> _agents[n + 1 - i]] : n \in 2..MaxGatherWorkers}

GatherInit ==
    /\ \E enabled \in GatherChoices :
          config = CollaborationConfig(enabled, 2, 1, TRUE, FALSE, FALSE)
    /\ user_story \in Stories
    /\ pc = "idle"
    /\ round_num = 0
    /\ agent_outputs = <<>>
    /\ all_scenarios = <<>>
    /\ agent_input = <<>>
    /\ tasks = <<>>
    /\ response = <<>>
    /\ round_log = <<>>
    /\ agents = _initialize_agents
    /\ other = <<>>

GatherNext ==
    \/ Call
    \/ RoundBegin
    \/ \E i \in 1..Len(tasks) : TaskStart(i)
    \/ \E i \in 1..Len(tasks) : TransportReply(i, CompletionText(NumDone(tasks) + 1))
    \/ GatherReturn
    \/ Finish

GatherSpec == GatherInit /\ [][GatherNext]_vars

\* the scenarios of the finished rounds, round by round and, in a round, in
\* the order of the roles of enabled_agents
ScenariosInRoleOrder ==
    Concat([k \in 1..Len(round_log) |->
        Concat([n \in 1..Len(config.enabled_agents) |->
            LET of == SelectSeq(round_log[k],
                                LAMBDA t : t.role = config.enabled_agents[n])
            IN  PySliceTo(of[1].result[1].scenarios, Cap)])])

\* C32: the order of the running scenario list, and of every later round's
\* previous_scenarios, does not depend on the order in which the workers of
\* a round complete: in a round the outputs are appended in the order of the
\* roles of enabled_agents, for every interleaving of the completions.
C32_CompletionOrderHidden ==
    /\ pc \in {"loop", "gather", "returned"} => all_scenarios = ScenariosInRoleOrder
    /\ pc = "gather" => agent_input[1].previous_scenarios = ScenariosInRoleOrder

\* round 2 is under way after a round in which the last worker of the list
\* completed first and the first one last
C32_Witness ==
    /\ pc = "gather"
    /\ Len(round_log) = 1
    /\ Len(round_log[1]) >= 2
    /\ TitleNumber(round_log[1][Len(round_log[1])].reply) = 1
    /\ TitleNumber(round_log[1][1].reply) = Len(round_log[1])
    /\ agent_input[1].previous_scenarios[1] = round_log[1][1].result[1].scenarios[1]
    /\ Len(agent_input[1].previous_scenarios) = Len(round_log[1])

----------------------------------------------------------------------------
(* C33 *)

\* the invocations of the last round whose Response the per-role map keeps:
\* for each role the last one of the round
FinalInvocations ==
    IF round_log = <<>> THEN {}
    ELSE LET last == round_log[Len(round_log)]
         IN  {last[i] : i \in {j \in 1..Len(last) : LastOfRole(last, j)}}

\* the scenario texts of the last-round Responses
FinalTexts == UNION {Range(t.result[1].scenarios) : t \in FinalInvocations}

\* the scenario texts the workers of a role returned in the last round
LastRoundTextsOf(role) ==
    IF round_log = <<>> THEN {}
    ELSE LET last == round_log[Len(round_log)]
         IN  UNION {Range(last[i].result[1].scenarios) : i \in TasksOfRole(last, role)}

\* the scenario is in the previous_scenarios of every Request of the rounds
\* after round k
InLaterRequests(scenario, k) ==
    \A later \in (k + 1)..Len(round_log) : \A j \in 1..Len(round_log[later]) :
        scenario \in Range(round_log[later][j].call[1].previous_scenarios)

\* the number of scenarios of the last-round Responses
FinalCount ==
    LET last == round_log[Len(round_log)]
    IN  SumSeq([i \in 1..Len(last) |->
            IF LastOfRole(last, i) THEN Len(last[i].result[1].scenarios) ELSE 0])

----------------------------------------------------------------------------
(* C34 *)

\* C34: in every returned result the summary and the metrics agree:
\* total_scenarios_generated is total_scenarios, participating_agents is as
\* long as agents_participated and as the keys of agent_outputs, key_insights
\* holds at most 2 entries for each participant and main_concerns at most 1,
\* all of them insights and concerns of the participants.
C34_SummaryAgreesWithMetrics ==
    response # <<>> =>
        LET summary == response[1].collaboration_summary
            metrics == response[1].quality_metrics
            outputs == DictValues(response[1].agent_outputs)
            participants == Len(response[1].agent_outputs)
        IN  /\ summary.total_scenarios_generated = metrics.total_scenarios
            /\ Len(summary.participating_agents) = metrics.agents_participated
            /\ Len(summary.participating_agents) = participants
            /\ Len(summary.key_insights) <= 2 * participants
            /\ Len(summary.main_concerns) <= participants
            /\ Len(summary.key_insights) <= metrics.total_insights
            /\ Len(summary.main_concerns) <= metrics.total_concerns
            /\ Range(summary.key_insights) \subseteq
                  UNION {Range(outputs[i].insights) : i \in 1..Len(outputs)}
            /\ Range(summary.main_concerns) \subseteq
                  UNION {Range(outputs[i].concerns) : i \in 1..Len(outputs)}

\* a result of two participants, one of them with three insights: the
\* summary holds fewer insights than the metrics count
C34_Witness ==
    /\ response # <<>>
    /\ Len(response[1].agent_outputs) = 2
    /\ \E i \in 1..2 : Len(response[1].agent_outputs[i].value.insights) > 2
    /\ response[1].quality_metrics.total_scenarios > 0
    /\ Len(response[1].collaboration_summary.key_insights)
          < response[1].quality_metrics.total_insights

----------------------------------------------------------------------------
(* C35 *)

\* every call of the last round failed, and there was one
AllFailedAtLast ==
    /\ round_log # <<>>
    /\ round_log[Len(round_log)] # <<>>
    /\ \A i \in 1..Len(round_log[Len(round_log)]) :
          round_log[Len(round_log)][i].reply[1].kind = "error"

\* C35: in a returned result a role whose call of the last round failed is
\* a participant with no scenario, one insight and one concern;
\* collaboration_score is 0 exactly when the per-role map holds no scenario
\* and no insight; and when every call of the last round failed the result
\* has zero scenarios, one insight and one concern for each participant and
\* a collaboration_score above 0.
C35_FailedWorkersCount ==
    response # <<>> =>
        LET outputs == response[1].agent_outputs
            metrics == response[1].quality_metrics
        IN  /\ \A t \in FinalInvocations :
                  t.reply[1].kind = "error" =>
                      /\ DictHas(outputs, t.role)
                      /\ DictGet(outputs, t.role).scenarios = <<>>
                      /\ Len(DictGet(outputs, t.role).insights) = 1
                      /\ Len(DictGet(outputs, t.role).concerns) = 1
            /\ metrics.collaboration_score_tenths = 0 <=>
                  (\A i \in 1..Len(outputs) :
                      /\ outputs[i].value.scenarios = <<>>
                      /\ outputs[i].value.insights = <<>>)
            /\ AllFailedAtLast =>
                  /\ metrics.total_scenarios = 0
                  /\ response[1].consolidated_scenarios = <<>>
                  /\ metrics.agents_participated > 0
                  /\ metrics.total_insights = metrics.agents_participated
                  /\ metrics.total_concerns = metrics.agents_participated
                  /\ metrics.collaboration_score_tenths = 5 * metrics.agents_participated
                  /\ metrics.collaboration_score_tenths > 0

\* a result of two rounds and two workers that all failed in the last round,
\* one of them having given scenarios in the first
C35_Witness ==
    /\ response # <<>>
    /\ AllFailedAtLast
    /\ Len(round_log) = 2
    /\ Len(response[1].agent_outputs) = 2
    /\ \E i \in 1..Len(round_log[1]) : round_log[1][i].result[1].scenarios # <<>>
    /\ response[1].quality_metrics.total_scenarios = 0
    /\ response[1].quality_metrics.collaboration_score_tenths = 10

----------------------------------------------------------------------------
(* C36 *)

\* the invocations made so far: those of the rounds over and those of the
\* round under way
InvocationsSoFar ==
    UNION {Range(round_log[k]) : k \in 1..Len(round_log)} \cup Range(tasks)

\* C36: an invocation whose transport answered with no content returns a
\* Response under the worker's role whose scenarios, insights, concerns and
\* suggestions are all empty: it is not the Response of the failure path.
C36_NullContentIsEmpty ==
    \A t \in InvocationsSoFar :
        (t.state = "done" /\ t.reply[1].kind = "null") =>
            /\ t.result[1].agent_role = t.role
            /\ t.result[1].scenarios = <<>>
            /\ t.result[1].insights = <<>>
            /\ t.result[1].concerns = <<>>
            /\ t.result[1].suggestions = <<>>

\* a result returned after a last round in which one worker got no content
\* and another failed: the first has no insight, the second has one
C36_Witness ==
    /\ response # <<>>
    /\ \E t, u \in FinalInvocations :
          /\ t.reply[1].kind = "null"
          /\ u.reply[1].kind = "error"
          /\ DictGet(response[1].agent_outputs, t.role).insights = <<>>
          /\ DictGet(response[1].agent_outputs, t.role).concerns = <<>>
          /\ DictGet(response[1].agent_outputs, u.role).insights # <<>>

----------------------------------------------------------------------------
(* C37 *)

\* the lines of a scenario text
MaxFormatLines == 3

\* the times _format_bdd_scenario is applied in a row
MaxFormatTimes == 2

\* "  Cenário 1: X "
LineTitlePadded == <<SP, SP>> \o TitleX \o <<SP>>
\* "    Dado y": a step as _format_bdd_scenario leaves it
LineStepIndented == Indent \o LineStep
\* a step after a tab, and a carriage return at its end
LineStepTab == <<TAB>> \o LineStep \o <<"\r">>
\* "Dado o cenário: x": a step that holds the title's word and a colon
LineStepCenario ==
    <<"D","a","d","o"," ","o"," ","c","e","n","á","r","i","o",":"," ","x">>
\* a line of two spaces
LineSpaces == <<SP, SP>>

\* the lines of a scenario text: titles and steps, bare, padded and already
\* indented, a line of another kind, the empty line and a line of spaces
FormatLines ==
    {TitleX, LineTitlePadded, LineStep, LineStepIndented, LineStepTab, LineStepCenario,
     LinePlain, <<>>, LineSpaces}

FormatTexts ==
    {Join(lines, <<NL>>) :
        lines \in UNION {[1..n -> FormatLines] : n \in 0..MaxFormatLines}}

\* a text is at hand: all_scenarios holds it, then what _format_bdd_scenario
\* makes of it, applied over and over; agent_outputs holds what
\* _parse_response makes of the text
FormatInit ==
    /\ config = CollaborationConfig(<<PO>>, 1, MaxCap, TRUE, FALSE, FALSE)
    /\ user_story \in Stories
    /\ pc = "format"
    /\ round_num = 0
    /\ agent_outputs = <<>>
    /\ all_scenarios \in {<<text>> : text \in FormatTexts}
    /\ agent_input = <<>>
    /\ tasks = <<>>
    /\ response = <<>>
    /\ round_log = <<>>
    /\ agents = _initialize_agents
    /\ other = <<>>

\* self._format_bdd_scenario(scenario) on the text last obtained
FormatScenario ==
    /\ pc = "format"
    /\ Len(all_scenarios) <= MaxFormatTimes
    /\ all_scenarios' = Append(all_scenarios,
                               _format_bdd_scenario(all_scenarios[Len(all_scenarios)]))
    /\ UNCHANGED <<other, agents, config, user_story, pc, round_num, agent_outputs,
                   agent_input, tasks, response, round_log>>

\* self._parse_response(content) on the text at hand
ParseContent ==
    /\ pc = "format"
    /\ agent_outputs = <<>>
    /\ agent_outputs' = DictSet(agent_outputs, agents[PO].role,
                                _parse_response(agents[PO].role, all_scenarios[1]))
    /\ UNCHANGED <<other, agents, config, user_story, pc, round_num, all_scenarios,
                   agent_input, tasks, response, round_log>>

FormatNext == FormatScenario \/ ParseContent

FormatSpec == FormatInit /\ [][FormatNext]_vars

\* the scenarios of a text as the loop of _parse_response collects them,
\* before any formatting: the closed ones and the open one
CollectedScenarios(content) ==
    LET st == ParseLoop(ParseInit, Split(Strip(content), NL))
    IN  IF st.current_scenario # <<>>
        THEN Append(st.scenarios, Join(st.current_scenario, <<NL>>))
        ELSE st.scenarios

\* the lines of a formatted scenario: none is empty, none ends with a space,
\* and each opens with no space or with the four of the indentation
WellFormatted(scenario) ==
    scenario # <<>> =>
        \A line \in Range(Split(scenario, NL)) :
            /\ line # <<>>
            /\ ~IsSpace(line[Len(line)])
            /\ \/ ~IsSpace(line[1])
               \/ /\ StartsWith(line, Indent)
                  /\ Len(line) > Len(Indent)
                  /\ ~IsSpace(line[Len(Indent) + 1])

\* C37: formatting a formatted scenario returns it unchanged, and every
\* scenario of a parsed reply, the last one included, is the scenario the
\* loop collected formatted once.
C37_FormatIdempotent ==
    pc = "format" =>
        /\ \A k \in 3..Len(all_scenarios) : all_scenarios[k] = all_scenarios[2]
        /\ \A k \in 2..Len(all_scenarios) : WellFormatted(all_scenarios[k])
        /\ agent_outputs # <<>> =>
              LET collected == CollectedScenarios(all_scenarios[1])
                  parsed == DictGet(agent_outputs, PO).scenarios
              IN  /\ Len(parsed) = Len(collected)
                  /\ \A n \in 1..Len(parsed) :
                        /\ parsed[n] = _format_bdd_scenario(collected[n])
                        /\ WellFormatted(parsed[n])

\* a text of a title, an indented step and a title was formatted twice and
\* parsed: formatting changed it the first time, and the parsed reply has two
\* scenarios, the first of two lines
C37_Witness ==
    /\ pc = "format"
    /\ Len(all_scenarios) = 3
    /\ all_scenarios[2] # all_scenarios[1]
    /\ Contains(all_scenarios[2], Indent)
    /\ agent_outputs # <<>>
    /\ Len(DictGet(agent_outputs, PO).scenarios) = 2
    /\ Contains(DictGet(agent_outputs, PO).scenarios[1], <<NL>> \o Indent)

----------------------------------------------------------------------------
(* C38 *)

\* C38: no step of a run changes the CollaborationConfig it was given or
\* the role-to-worker map, so both are after the return or the raise what
\* they were at the call: the map is the one _initialize_agents built.
C38_InputsAndRegistryKept ==
    /\ [][config' = config /\ agents' = agents]_vars
    /\ [](pc \in {"returned", "raised"} => agents = _initialize_agents)

\* a run of two rounds over two roles raised in its second round, after a
\* round was merged: config and the map are as they were
C38_Witness ==
    /\ pc = "raised"
    /\ Len(round_log) = 1
    /\ config.collaboration_rounds = 2
    /\ Len(config.enabled_agents) = 2
    /\ agents = _initialize_agents

----------------------------------------------------------------------------
(* C39 *)

\* the scenarios of a list given to _generate_gherkin_content
MaxGherkinScenarios == 3

\* a story of two lines: its description holds a newline
StoryTwoLines == StoryLogin \o <<NL>> \o LineStep

\* the scenario texts: as _format_bdd_scenario leaves them, with an empty
\* line inside, with a line of spaces before the title, empty, of one line,
\* and with a newline at the end
GherkinScenarioTexts ==
    {TitleX \o <<NL>> \o LineStepIndented,
     TitleX \o <<NL, NL>> \o LineStep,
     LineSpaces \o <<NL>> \o TitleX,
     <<>>,
     TitleX,
     LineStepTab \o <<NL>>}

\* generate_bdd_scenarios has consolidated the scenarios: all_scenarios
\* holds the list it is about to give to _generate_gherkin_content
GherkinInit ==
    /\ config = CollaborationConfig(<<PO>>, 1, MaxCap, TRUE, FALSE, FALSE)
    /\ user_story \in {StoryLogin, StoryTwoLines}
    /\ pc = "gherkin"
    /\ round_num = 1
    /\ agent_outputs = <<>>
    /\ all_scenarios \in UNION {[1..n -> GherkinScenarioTexts] : n \in 0..MaxGherkinScenarios}
    /\ agent_input = <<>>
    /\ tasks = <<>>
    /\ response = <<>>
    /\ round_log = <<>>
    /\ agents = _initialize_agents
    /\ other = <<>>

\* self._generate_gherkin_content(feature_name, feature_description, scenarios)
GenerateGherkin ==
    /\ pc = "gherkin"
    /\ LET feature == _extract_feature_info(user_story)
       IN  response' = <<[feature_name |-> feature[1],
                          feature_description |-> feature[2],
                          consolidated_scenarios |-> all_scenarios,
                          gherkin_content |->
                              _generate_gherkin_content(feature[1], feature[2], all_scenarios)]>>
    /\ pc' = "returned"
    /\ UNCHANGED <<other, agents, config, user_story, round_num, agent_outputs,
                   all_scenarios, agent_input, tasks, round_log>>

GherkinNext == GenerateGherkin

GherkinSpec == GherkinInit /\ [][GherkinNext]_vars

\* a line of white space only, the empty line included
IsBlankLine(line) == \A k \in 1..Len(line) : IsSpace(line[k])

\* the lines of a scenario that are not blank, in order
NonBlankLines(scenario) ==
    SelectSeq(Split(scenario, NL), LAMBDA line : ~IsBlankLine(line))

\* the lines of the header: the feature name after "Funcionalidade: ", the
\* description after two spaces, and an empty line
HeaderLines(r) ==
    Split(GherkinHeader \o r.feature_name \o <<NL, SP, SP>> \o r.feature_description, NL)
        \o << <<>> >>

\* the lines before those of scenario i: the header, and the lines and the
\* separator of each scenario before it
LinesBefore(r, i) ==
    Len(HeaderLines(r))
        + SumSeq([j \in 1..(i - 1) |-> Len(NonBlankLines(r.consolidated_scenarios[j])) + 1])

\* C39: the Gherkin content opens with the header lines; then, for each
\* consolidated scenario in order, come its non-blank lines, each once and
\* after two spaces, and an empty line if another scenario follows; there
\* is no other line.
C39_GherkinLayout ==
    (pc = "returned" /\ response # <<>>) =>
        LET r == response[1]
            scenarios == r.consolidated_scenarios
            n == Len(scenarios)
            lines == Split(r.gherkin_content, NL)
        IN  /\ Len(lines) = LinesBefore(r, n + 1) - (IF n > 0 THEN 1 ELSE 0)
            /\ SubSeq(lines, 1, Len(HeaderLines(r))) = HeaderLines(r)
            /\ \A i \in 1..n :
                  LET kept == NonBlankLines(scenarios[i])
                  IN  /\ \A k \in 1..Len(kept) :
                            lines[LinesBefore(r, i) + k] = <<SP, SP>> \o kept[k]
                      /\ i < n => lines[LinesBefore(r, i) + Len(kept) + 1] = <<>>

\* the content of three scenarios, one of them with an empty line inside:
\* it holds two newlines in a row, between scenarios, and nowhere three,
\* and it ends with a line of the last scenario
C39_Witness ==
    /\ pc = "returned"
    /\ response # <<>>
    /\ Len(response[1].consolidated_scenarios) = 3
    /\ \E i \in 1..3 : Contains(response[1].consolidated_scenarios[i], <<NL, NL>>)
    /\ \A i \in 1..3 : NonBlankLines(response[1].consolidated_scenarios[i]) # <<>>
    /\ Contains(response[1].gherkin_content, <<NL, NL>>)
    /\ ~Contains(response[1].gherkin_content, <<NL, NL, NL>>)
    /\ response[1].gherkin_content[Len(response[1].gherkin_content)] # NL

====
